---- MODULE Spec2Model ----
(***************************************************************************)
(* Ordered-set containers of jiangshengdev/unicorn: the unbalanced binary  *)
(* search tree (binary_search_tree.ts), the red-black tree built on its    *)
(* internals (red_black_tree.ts) and their nodes (_binary_search_node.ts,  *)
(* _red_black_node.ts).                                                    *)
(*                                                                         *)
(* Nodes are JavaScript objects; the model keeps them in a heap, a         *)
(* sequence of node records addressed by position, 0 standing for null.    *)
(* A node record has the fields the classes declare (value, parent, left,  *)
(* right, red) and the field "null": the code indexes nodes with a         *)
(* Direction | null value (node[direction]), and with direction null that  *)
(* reads and writes the JavaScript property named "null".                  *)
(***************************************************************************)
EXTENDS Integers, Sequences, FiniteSets, TLC

\* ---------------------------------------------------------------- bounds
\* keys the stored elements may carry
MaxKey == 6
\* keys 1..MaxDup exist as two distinct objects comparing equal
MaxDup == 1
\* keys of the elements used where two trees exist
MaxFromKey == 3
\* insert, remove and clear calls made once from() has returned a tree
MaxAfter == 1
\* length of the arrays given to from()
MaxArray == 2
\* keys of the elements pushed onto a BinaryHeap
MaxHeapKey == 4
\* elements a BinaryHeap holds at most when BinaryHeap.from is given it
MaxFromLength == 3
\* elements a BinaryHeap holds at most
MaxLength == 5
\* values given to one push call
MaxPush == 2
\* keys of the elements given to a BinarySearchTree and a RedBlackTree alike
MaxBothKey == 5
\* keys, and calls after from(), in the runs of a tree beside its copy
MaxSharedKey == 3
MaxSharedAfter == 4

Keys == 1..MaxKey
\* an element is an object <<id, tag>>; comparators look at the id only
Elems == {<<k, 1>> : k \in Keys} \cup {<<k, 2>> : k \in 1..MaxDup}
Key(e) == e[1]
\* null / undefined as a value
None == <<0, 0>>
NULL == 0

\* the elements used where two trees exist
FromElems == {e \in Elems : Key(e) <= MaxFromKey}
\* the values pushed onto a BinaryHeap
HeapElems == {e \in Elems : Key(e) <= MaxHeapKey}
\* the values given to a BinarySearchTree and a RedBlackTree alike
BothElems == {e \in Elems : Key(e) <= MaxBothKey}
\* the values inserted and removed beside a copy that shares nodes
SharedElems == {e \in Elems : Key(e) <= MaxSharedKey /\ e[2] = 1}

Kinds == {"bst", "rbt"}
Comparators == {"ascend", "descend"}

\* ----------------------------------------------------------- comparators
ascend(a, b) == IF a < b THEN -1 ELSE IF a > b THEN 1 ELSE 0
\* descend comparing as ascend does
descendAscending(a, b) == ascend(a, b)
descend(a, b) == IF a < b THEN 1 ELSE IF a > b THEN -1 ELSE 0
\* the tree's #compare: (a, b) => ascend(a.id, b.id) or its descending twin
\* or, as "difference" and "reversed difference", the comparators
\* (a, b) => 2 * (a.id - b.id) and (a, b) => 2 * (b.id - a.id), whose results
\* have the signs of ascend's and descend's and other magnitudes
Compare(c, a, b) ==
  IF c = "ascend" THEN ascend(Key(a), Key(b))
  ELSE IF c = "difference" THEN 2 * (Key(a) - Key(b))
  ELSE IF c = "reversed difference" THEN 2 * (Key(b) - Key(a))
  ELSE descend(Key(a), Key(b))

\* ------------------------------------------------------------------ nodes
\* new BinarySearchNode(parent, value) / new RedBlackNode(parent, value)
NewNode(kind, parent, value) ==
  [value |-> value, parent |-> parent, left |-> NULL, right |-> NULL,
   null |-> NULL, red |-> (kind = "rbt")]

\* NodeFrom with `copy.right = node.right` left out
NodeFromNoRight(kind, n) ==
  [value |-> n.value, parent |-> n.parent, left |-> n.left, right |-> NULL,
   null |-> NULL, red |-> (kind = "rbt" /\ n.red)]

\* BinarySearchNode.from / RedBlackNode.from: a copy of one node, its links
\* still referring to the source's parent and children
NodeFrom(kind, n) ==
  [value |-> n.value, parent |-> n.parent, left |-> n.left, right |-> n.right,
   null |-> NULL, red |-> (kind = "rbt" /\ n.red)]

\* directionFromParent(): "null" stands for the null result
DirectionFromParent(h, n) ==
  IF h[n].parent = NULL THEN "null"
  ELSE IF n = h[h[n].parent].left THEN "left"
  ELSE IF n = h[h[n].parent].right THEN "right"
  ELSE "null"

\* a loop that has run more steps than there are nodes is in a cycle and
\* never ends; HUNG is the node result standing for that
HUNG == -1

RECURSIVE MinLoop(_, _, _)
MinLoop(h, minNode, fuel) ==
  IF h[minNode].left = NULL THEN minNode
  ELSE IF fuel = 0 THEN HUNG
  ELSE MinLoop(h, h[minNode].left, fuel - 1)

\* findMinNode()
FindMinNode(h, n) ==
  IF h[n].left = NULL THEN n ELSE MinLoop(h, h[n].left, Len(h))

RECURSIVE MaxLoop(_, _, _)
MaxLoop(h, maxNode, fuel) ==
  IF h[maxNode].right = NULL THEN maxNode
  ELSE IF fuel = 0 THEN HUNG
  ELSE MaxLoop(h, h[maxNode].right, fuel - 1)

\* findMaxNode()
FindMaxNode(h, n) ==
  IF h[n].right = NULL THEN n ELSE MaxLoop(h, h[n].right, Len(h))

RECURSIVE SuccessorClimb(_, _, _, _)
SuccessorClimb(h, parent, direction, fuel) ==
  IF parent = NULL \/ direction # "right" THEN parent
  ELSE IF fuel = 0 THEN HUNG
  ELSE SuccessorClimb(h, h[parent].parent, DirectionFromParent(h, parent),
                      fuel - 1)

\* findSuccessorNode()
FindSuccessorNode(h, n) ==
  IF h[n].right # NULL THEN FindMinNode(h, h[n].right)
  ELSE SuccessorClimb(h, h[n].parent, DirectionFromParent(h, n), Len(h))

\* ------------------------------------------------------ tree primitives
\* The state an operation works on: the heap h, the tree's #root and #size,
\* and out: "ok", "threw" (a TypeError left the operation at that point) or
\* "hung" (a loop that never ends).
Threw(st) == [st EXCEPT !.out = "threw"]
Hung(st) == [st EXCEPT !.out = "hung"]

RECURSIVE FindLoop(_, _, _, _, _)
FindLoop(h, cmp, value, node, fuel) ==
  IF node = NULL THEN NULL
  ELSE IF fuel = 0 THEN HUNG
  ELSE LET order == Compare(cmp, value, h[node].value) IN
       IF order = 0 THEN node
       ELSE FindLoop(h, cmp, value,
                     h[node][IF order < 0 THEN "left" ELSE "right"], fuel - 1)

\* #findNode(value)
FindNode(h, root, cmp, value) == FindLoop(h, cmp, value, root, Len(h))

\* node[field] = v
SetLink(h, n, field, v) == [h EXCEPT ![n][field] = v]

\* rotateNode, its last two assignments:
\*   replacement[direction] = node; node.parent = replacement
RotateDown(st, h, node, direction, replacement) ==
  [st EXCEPT !.h = SetLink(SetLink(h, replacement, direction, node),
                           node, "parent", replacement)]

\* RotateUp with the former parent's link and the tree's #root left as they
\* were
RotateUpUnlinked(st, h, node, direction, replacementDirection, replacement) ==
  RotateDown(st, h, node, direction, replacement)

\* rotateNode: replacement.parent = node.parent is done; the former parent's
\* link, or the tree's #root, now refers to the replacement
RotateUp(st, h, node, direction, replacementDirection, replacement) ==
  IF h[node].parent # NULL
  THEN RotateDown(st,
         SetLink(h, h[node].parent,
                 IF node = h[h[node].parent][direction]
                 THEN direction ELSE replacementDirection,
                 replacement),
         node, direction, replacement)
  ELSE RotateDown([st EXCEPT !.root = replacement], h, node, direction,
                  replacement)

\* RotateInner with `replacement[direction]!.parent = node` left out
RotateInnerNoParent(st, h, node, direction, replacementDirection, replacement) ==
  RotateUp(st, SetLink(h, replacement, "parent", h[node].parent),
           node, direction, replacementDirection, replacement)

\* rotateNode: node[replacementDirection] = replacement[direction] is done;
\* that subtree's parent, if there is one, becomes node
RotateInner(st, h, node, direction, replacementDirection, replacement) ==
  RotateUp(st,
    SetLink(IF h[replacement][direction] # NULL
            THEN SetLink(h, h[replacement][direction], "parent", node) ELSE h,
            replacement, "parent", h[node].parent),
    node, direction, replacementDirection, replacement)

\* #rotateNode(node, direction); direction may be "null" (see the header)
RotateNode(st, node, direction) ==
  LET replacementDirection == IF direction = "left" THEN "right" ELSE "left" IN
  IF st.out # "ok" THEN st
  ELSE IF st.h[node][replacementDirection] = NULL THEN Threw(st)
  ELSE RotateInner([st EXCEPT !.rotated = st.rotated + 1],
         SetLink(st.h, node, replacementDirection,
                 st.h[st.h[node][replacementDirection]][direction]),
         node, direction, replacementDirection,
         st.h[node][replacementDirection])

RECURSIVE InsertLoop(_, _, _, _, _, _)

\* #insertNode, no child in the direction taken:
\*   node[direction] = new Node(node, value); this.#size++; return it
InsertAttach(st, kind, value, node, direction) ==
  [st |-> [st EXCEPT !.h = [Append(st.h, NewNode(kind, node, value))
                              EXCEPT ![node][direction] = Len(st.h) + 1],
                     !.size = st.size + 1],
   node |-> Len(st.h) + 1]

\* #insertNode: if (node[direction]) node = node[direction] else attach
InsertDirected(st, kind, cmp, value, node, direction, fuel) ==
  IF st.h[node][direction] # NULL
  THEN IF fuel = 0 THEN [st |-> Hung(st), node |-> NULL]
       ELSE InsertLoop(st, kind, cmp, value, st.h[node][direction], fuel - 1)
  ELSE InsertAttach(st, kind, value, node, direction)

\* InsertCompared with `if (order === 0) break` left out: an equal value
\* goes right
InsertComparedNoBreak(st, kind, cmp, value, node, order, fuel) ==
  InsertDirected(st, kind, cmp, value, node,
                 IF order < 0 THEN "left" ELSE "right", fuel)

\* InsertCompared going left only when the comparator returns -1
InsertComparedByOne(st, kind, cmp, value, node, order, fuel) ==
  IF order = 0 THEN [st |-> st, node |-> NULL]
  ELSE InsertDirected(st, kind, cmp, value, node,
                      IF order = 0 - 1 THEN "left" ELSE "right", fuel)

\* InsertCompared storing the new value in the node that compares equal
InsertComparedOverwrite(st, kind, cmp, value, node, order, fuel) ==
  IF order = 0
  THEN [st |-> [st EXCEPT !.h[node].value = value], node |-> NULL]
  ELSE InsertDirected(st, kind, cmp, value, node,
                      IF order < 0 THEN "left" ELSE "right", fuel)

\* #insertNode, the loop body once order is computed:
\*   if (order === 0) break; direction = order < 0 ? 'left' : 'right'
InsertCompared(st, kind, cmp, value, node, order, fuel) ==
  IF order = 0 THEN [st |-> st, node |-> NULL]
  ELSE InsertDirected(st, kind, cmp, value, node,
                      IF order < 0 THEN "left" ELSE "right", fuel)

\* #insertNode's loop `while (true)`
InsertLoop(st, kind, cmp, value, node, fuel) ==
  InsertCompared(st, kind, cmp, value, node,
                 Compare(cmp, value, st.h[node].value), fuel)

\* the first node of a tree: this.#root = new Node(null, value)
InsertRoot(st, kind, value) ==
  [st EXCEPT !.h = Append(st.h, NewNode(kind, NULL, value)),
             !.root = Len(st.h) + 1]

\* InsertNode with `this.#size++` left out where the tree is empty
InsertNodeNoCount(st, kind, cmp, value) ==
  IF st.root = NULL
  THEN [st |-> InsertRoot(st, kind, value), node |-> Len(st.h) + 1]
  ELSE InsertLoop(st, kind, cmp, value, st.root, Len(st.h))

\* #insertNode(Node, value): the new node, or NULL when the value is there
InsertNode(st, kind, cmp, value) ==
  IF st.root = NULL
  THEN [st |-> [InsertRoot(st, kind, value) EXCEPT !.size = st.size + 1],
        node |-> Len(st.h) + 1]
  ELSE InsertLoop(st, kind, cmp, value, st.root, Len(st.h))

\* RemoveSwap with the exchange of node.value and flaggedNode.value left out
RemoveSwapSkipped(st, node, flaggedNode) ==
  [st |-> [st EXCEPT !.size = st.size - 1], node |-> flaggedNode]

\* #removeNode: if (flaggedNode !== node) the two values change places;
\*   this.#size--; return flaggedNode
RemoveSwap(st, node, flaggedNode) ==
  [st |-> IF flaggedNode # node
          THEN [st EXCEPT !.h[node].value = st.h[flaggedNode].value,
                          !.h[flaggedNode].value = st.h[node].value,
                          !.size = st.size - 1]
          ELSE [st EXCEPT !.size = st.size - 1],
   node |-> flaggedNode]

\* #removeNode: #root, or the parent's link in directionFromParent(), now
\* refers to replacementNode
RemoveUnlink(st, node, flaggedNode, replacementNode) ==
  IF st.h[flaggedNode].parent = NULL
  THEN RemoveSwap([st EXCEPT !.root = replacementNode], node, flaggedNode)
  ELSE RemoveSwap(
         [st EXCEPT !.h[st.h[flaggedNode].parent]
                       [DirectionFromParent(st.h, flaggedNode)] =
                         replacementNode],
         node, flaggedNode)

\* #removeNode: if (replacementNode) replacementNode.parent = flaggedNode.parent
RemoveReplace(st, node, flaggedNode, replacementNode) ==
  RemoveUnlink(IF replacementNode # NULL
               THEN [st EXCEPT !.h[replacementNode].parent =
                                 st.h[flaggedNode].parent]
               ELSE st,
               node, flaggedNode, replacementNode)

\* #removeNode: replacementNode = flaggedNode.left ?? flaggedNode.right
RemoveFlagged(st, node, flaggedNode) ==
  IF flaggedNode = HUNG THEN [st |-> Hung(st), node |-> NULL]
  ELSE RemoveReplace(st, node, flaggedNode,
                     IF st.h[flaggedNode].left # NULL
                     THEN st.h[flaggedNode].left ELSE st.h[flaggedNode].right)

\* RemoveNode flagging the node itself whatever children it has
RemoveNodeItself(st, node) == RemoveFlagged(st, node, node)

\* #removeNode(node): splices out the flagged node and returns it
RemoveNode(st, node) ==
  RemoveFlagged(st, node,
                IF st.h[node].left = NULL \/ st.h[node].right = NULL
                THEN node ELSE FindSuccessorNode(st.h, node))

\* ------------------------------------------------------- red-black tree
\* n.red = red
SetRed(st, n, red) == [st EXCEPT !.h[n].red = red]

\* x?.red
IsRed(h, n) == n # NULL /\ h[n].red

RECURSIVE InsertFixup(_, _, _)

\* InsertRotateUp rotating the grandparent towards the parent's side
InsertRotateUpWrongWay(st, node, parent, uncleDirection, fuel) ==
  IF st.out # "ok" THEN st
  ELSE IF parent = NULL THEN Threw(st)
  ELSE IF st.h[parent].parent = NULL THEN Threw(SetRed(st, parent, FALSE))
  ELSE InsertFixup(
         RotateNode(SetRed(SetRed(st, parent, FALSE), st.h[parent].parent, TRUE),
                    st.h[parent].parent,
                    IF uncleDirection = "left" THEN "right" ELSE "left"),
         node, fuel - 1)

\* insert, the end of the loop body:
\*   parent.red = false; parent.parent!.red = true;
\*   rotateNode(this, parent.parent!, uncleDirection)
InsertRotateUp(st, node, parent, uncleDirection, fuel) ==
  IF st.out # "ok" THEN st
  ELSE IF parent = NULL THEN Threw(st)
  ELSE IF st.h[parent].parent = NULL THEN Threw(SetRed(st, parent, FALSE))
  ELSE InsertFixup(
         RotateNode(SetRed(SetRed(st, parent, FALSE), st.h[parent].parent, TRUE),
                    st.h[parent].parent, uncleDirection),
         node, fuel - 1)

\* insert, the inner-child case: node = parent and the rotation are done;
\*   parent = node.parent!
InsertAfterInner(st, node, uncleDirection, fuel) ==
  IF st.out # "ok" THEN st
  ELSE InsertRotateUp(st, node, st.h[node].parent, uncleDirection, fuel)

\* InsertFixupCase with the loop ended after a red uncle's recolouring, so
\* that `node = parent.parent` is never followed upwards
InsertFixupCaseOnce(st, node, parent, parentDirection, uncleDirection, uncle, fuel) ==
  IF IsRed(st.h, uncle)
  THEN SetRed(SetRed(SetRed(st, parent, FALSE), uncle, FALSE),
              st.h[parent].parent, TRUE)
  ELSE IF node = st.h[parent][uncleDirection]
  THEN InsertAfterInner(RotateNode(st, parent, parentDirection), parent,
                        uncleDirection, fuel)
  ELSE InsertRotateUp(st, node, parent, uncleDirection, fuel)

\* insert, the loop body once parent, the directions and the uncle are read
InsertFixupCase(st, node, parent, parentDirection, uncleDirection, uncle, fuel) ==
  IF IsRed(st.h, uncle)
  THEN InsertFixup(
         SetRed(SetRed(SetRed(st, parent, FALSE), uncle, FALSE),
                st.h[parent].parent, TRUE),
         st.h[parent].parent, fuel - 1)
  ELSE IF node = st.h[parent][uncleDirection]
  THEN InsertAfterInner(RotateNode(st, parent, parentDirection), parent,
                        uncleDirection, fuel)
  ELSE InsertRotateUp(st, node, parent, uncleDirection, fuel)

\* insert, the head of the loop body: parentDirection, uncleDirection, uncle
InsertFixupStep(st, node, parent, parentDirection, fuel) ==
  \* parent.parent![uncleDirection] on a null parent.parent
  IF st.h[parent].parent = NULL THEN Threw(st)
  ELSE InsertFixupCase(st, node, parent, parentDirection,
         IF parentDirection = "right" THEN "left" ELSE "right",
         st.h[st.h[parent].parent][IF parentDirection = "right" THEN "left"
                                     ELSE "right"],
         fuel)

\* InsertFixup with the loop left out: no recolouring, no rotation
InsertFixupSkipped(st, node, fuel) == st

\* insert's loop `while (node.parent?.red)`
InsertFixup(st, node, fuel) ==
  IF st.out # "ok" THEN st
  ELSE IF ~IsRed(st.h, st.h[node].parent) THEN st
  ELSE IF fuel = 0 THEN Hung(st)
  ELSE InsertFixupStep(st, node, st.h[node].parent,
                       DirectionFromParent(st.h, st.h[node].parent), fuel)

\* InsertBlackenRoot leaving the root's colour as the loop left it
InsertBlackenRootSkipped(st) == [st |-> st, ret |-> (st.out = "ok")]

\* insert, after the loop: (getRoot(this) as RedBlackNode<T>).red = false
InsertBlackenRoot(st) ==
  IF st.out = "ok" THEN [st |-> SetRed(st, st.root, FALSE), ret |-> TRUE]
  ELSE [st |-> st, ret |-> FALSE]

\* insert, once insertNode has returned
InsertInserted(ins) ==
  IF ins.st.out # "ok" \/ ins.node = NULL THEN [st |-> ins.st, ret |-> FALSE]
  ELSE InsertBlackenRoot(InsertFixup(ins.st, ins.node, 2 * Len(ins.st.h) + 2))

\* RedBlackTree.insert(value)
RbInsert(st, cmp, value) == InsertInserted(InsertNode(st, "rbt", cmp, value))

\* insert: return !!this.#insertNode(BinarySearchNode, value)
BstInserted(ins) ==
  [st |-> ins.st, ret |-> (ins.st.out = "ok" /\ ins.node # NULL)]

\* BinarySearchTree.insert(value)
BstInsert(st, cmp, value) == BstInserted(InsertNode(st, "bst", cmp, value))

\* the state and the `current` the loop of #removeFixup ends with
FixupEnd(st, current) == [st |-> st, current |-> current]

RECURSIVE RemoveFixupLoop(_, _, _, _)

\* #removeFixup, the last rotation is done: current = root; parent = null
RemoveFixupRotated(st, current) ==
  FixupEnd(st, IF st.out = "ok" THEN st.root ELSE current)

\* #removeFixup, the far nephew is red:
\*   sibling!.red = parent.red; parent.red = false;
\*   sibling![siblingDirection]!.red = false; rotateNode(this, parent, direction)
RemoveFixupFarRed(st, parent, current, direction, siblingDirection, sibling) ==
  IF st.out # "ok" THEN FixupEnd(st, current)
  ELSE IF sibling = NULL THEN FixupEnd(Threw(st), current)
  ELSE IF st.h[sibling][siblingDirection] = NULL
  THEN FixupEnd(Threw(SetRed(SetRed(st, sibling, st.h[parent].red), parent,
                             FALSE)), current)
  ELSE RemoveFixupRotated(
         RotateNode(SetRed(SetRed(SetRed(st, sibling, st.h[parent].red), parent,
                                  FALSE),
                           st.h[sibling][siblingDirection], FALSE),
                    parent, direction),
         current)

\* #removeFixup, the near-nephew rotation is done:
\*   sibling = parent[siblingDirection]
RemoveFixupNearRotated(st, parent, current, direction, siblingDirection) ==
  IF st.out # "ok" THEN FixupEnd(st, current)
  ELSE RemoveFixupFarRed(st, parent, current, direction, siblingDirection,
                         st.h[parent][siblingDirection])

\* #removeFixup, the sibling has a red child
RemoveFixupRedNephew(st, parent, current, direction, siblingDirection, sibling) ==
  IF ~IsRed(st.h, st.h[sibling][siblingDirection])
  THEN \* sibling[direction]!.red = false on a null sibling[direction]
       IF st.h[sibling][direction] = NULL THEN FixupEnd(Threw(st), current)
       ELSE RemoveFixupNearRotated(
              RotateNode(SetRed(SetRed(st, st.h[sibling][direction], FALSE),
                                sibling, TRUE),
                         sibling, siblingDirection),
              parent, current, direction, siblingDirection)
  ELSE RemoveFixupFarRed(st, parent, current, direction, siblingDirection,
                         sibling)

\* #removeFixup, `if (sibling)`: the sibling is black here
RemoveFixupSibling(st, parent, current, direction, siblingDirection, sibling, fuel) ==
  IF st.out # "ok" THEN FixupEnd(st, current)
  \* no sibling: the loop repeats with nothing changed
  ELSE IF sibling = NULL THEN FixupEnd(Hung(st), current)
  ELSE IF ~IsRed(st.h, st.h[sibling].left) /\ ~IsRed(st.h, st.h[sibling].right)
  THEN RemoveFixupLoop(SetRed(st, sibling, TRUE), st.h[parent].parent, parent,
                       fuel - 1)
  ELSE RemoveFixupRedNephew(st, parent, current, direction, siblingDirection,
                            sibling)

\* #removeFixup, the red-sibling rotation is done:
\*   sibling = parent[siblingDirection]
RemoveFixupSiblingRotated(st, parent, current, direction, siblingDirection, fuel) ==
  IF st.out # "ok" THEN FixupEnd(st, current)
  ELSE RemoveFixupSibling(st, parent, current, direction, siblingDirection,
                          st.h[parent][siblingDirection], fuel)

\* RemoveFixupStep with `parent.red = true` left out where the sibling is red
RemoveFixupStepParentBlack(st, parent, current, direction, siblingDirection, sibling, fuel) ==
  IF IsRed(st.h, sibling)
  THEN RemoveFixupSiblingRotated(
         RotateNode(SetRed(st, sibling, FALSE), parent, direction),
         parent, current, direction, siblingDirection, fuel)
  ELSE RemoveFixupSibling(st, parent, current, direction, siblingDirection,
                          sibling, fuel)

\* #removeFixup, the loop body once direction and sibling are read
RemoveFixupStep(st, parent, current, direction, siblingDirection, sibling, fuel) ==
  IF IsRed(st.h, sibling)
  THEN RemoveFixupSiblingRotated(
         RotateNode(SetRed(SetRed(st, sibling, FALSE), parent, TRUE), parent,
                    direction),
         parent, current, direction, siblingDirection, fuel)
  ELSE RemoveFixupSibling(st, parent, current, direction, siblingDirection,
                          sibling, fuel)

\* #removeFixup's loop `while (parent && !current?.red)`
RemoveFixupLoop(st, parent, current, fuel) ==
  IF st.out # "ok" THEN FixupEnd(st, current)
  ELSE IF parent = NULL \/ IsRed(st.h, current) THEN FixupEnd(st, current)
  ELSE IF fuel = 0 THEN FixupEnd(Hung(st), current)
  ELSE IF st.h[parent].left = current
  THEN RemoveFixupStep(st, parent, current, "left", "right",
                       st.h[parent].right, fuel)
  ELSE RemoveFixupStep(st, parent, current, "right", "left",
                       st.h[parent].left, fuel)

\* #removeFixup, after the loop: if (current) current.red = false
RemoveFixupBlacken(end) ==
  IF end.st.out = "ok" /\ end.current # NULL
  THEN SetRed(end.st, end.current, FALSE) ELSE end.st

\* #removeFixup(parent, current)
RemoveFixup(st, parent, current) ==
  RemoveFixupBlacken(RemoveFixupLoop(st, parent, current, 2 * Len(st.h) + 2))

\* the boolean a call returns, with the state it leaves
Returned(st) == [st |-> st, ret |-> (st.out = "ok")]

\* RemoveRemoved with the fix-up run whatever the removed node's colour
RemoveRemovedAlways(st, removedNode) ==
  IF st.out # "ok" THEN Returned(st)
  ELSE Returned(RemoveFixup(st, st.h[removedNode].parent,
                            IF st.h[removedNode].left # NULL
                            THEN st.h[removedNode].left
                            ELSE st.h[removedNode].right))

\* remove, once removeNode has returned removedNode
RemoveRemoved(st, removedNode) ==
  IF st.out # "ok" THEN Returned(st)
  ELSE IF ~st.h[removedNode].red
  THEN Returned(RemoveFixup(st, st.h[removedNode].parent,
                            IF st.h[removedNode].left # NULL
                            THEN st.h[removedNode].left
                            ELSE st.h[removedNode].right))
  ELSE Returned(st)

\* remove, once removeNode has run
RemoveSpliced(rem) == RemoveRemoved(rem.st, rem.node)

\* RemoveFound with `return true` reached whether or not a node was found
RemoveFoundTrue(st, node) ==
  IF node = HUNG THEN [st |-> Hung(st), ret |-> FALSE]
  ELSE IF node = NULL THEN [st |-> st, ret |-> TRUE]
  ELSE RemoveSpliced(RemoveNode(st, node))

\* remove, once findNode has returned node
RemoveFound(st, node) ==
  IF node = HUNG THEN [st |-> Hung(st), ret |-> FALSE]
  ELSE IF node = NULL THEN [st |-> st, ret |-> FALSE]
  ELSE RemoveSpliced(RemoveNode(st, node))

\* RedBlackTree.remove(value)
RbRemove(st, cmp, value) ==
  RemoveFound(st, FindNode(st.h, st.root, cmp, value))

\* BstRemoveFound with `return true` reached whether or not a node was found
BstRemoveFoundTrue(st, node) ==
  IF node = HUNG THEN [st |-> Hung(st), ret |-> FALSE]
  ELSE IF node = NULL THEN [st |-> st, ret |-> TRUE]
  ELSE Returned(RemoveNode(st, node).st)

\* BinarySearchTree.remove: if (node) this.#removeNode(node)
BstRemoveFound(st, node) ==
  IF node = HUNG THEN [st |-> Hung(st), ret |-> FALSE]
  ELSE IF node = NULL THEN [st |-> st, ret |-> FALSE]
  ELSE Returned(RemoveNode(st, node).st)

\* BinarySearchTree.remove(value)
BstRemove(st, cmp, value) ==
  BstRemoveFound(st, FindNode(st.h, st.root, cmp, value))

\* find: this.#findNode(value)?.value ?? null
FoundValue(h, node) ==
  IF node = NULL \/ node = HUNG THEN None ELSE h[node].value

\* find(value)
Find(h, root, cmp, value) == FoundValue(h, FindNode(h, root, cmp, value))

\* min(): this.#root ? this.#root.findMinNode().value : null
Min(h, root) == IF root = NULL THEN None ELSE FoundValue(h, FindMinNode(h, root))

\* max(): this.#root ? this.#root.findMaxNode().value : null
Max(h, root) == IF root = NULL THEN None ELSE FoundValue(h, FindMaxNode(h, root))

\* ------------------------------------------------------------ traversals
\* Each iterator is the code's loop over an explicit stack or queue; the
\* result is the yielded sequence, out = "hung" when the loop never ends.
RECURSIVE Pow2(_)
Pow2(n) == IF n = 0 THEN 1 ELSE 2 * Pow2(n - 1)
\* more steps than any traversal of a finite graph of Len(h) nodes takes
TraversalFuel(h) == Pow2(Len(h) + 2)

\* if (n) nodes.push(n)
Push(nodes, n) == IF n = NULL THEN nodes ELSE Append(nodes, n)

RECURSIVE LnrLoop(_, _, _, _, _)
LnrLoop(h, nodes, node, acc, fuel) ==
  IF nodes = <<>> /\ node = NULL THEN [vals |-> acc, out |-> "ok"]
  ELSE IF fuel = 0 THEN [vals |-> acc, out |-> "hung"]
  ELSE IF node # NULL
  THEN LnrLoop(h, Append(nodes, node), h[node].left, acc, fuel - 1)
  ELSE LET top == nodes[Len(nodes)] IN
       LnrLoop(h, SubSeq(nodes, 1, Len(nodes) - 1), h[top].right,
               Append(acc, h[top].value), fuel - 1)

\* lnrValues()
LnrValues(h, root) == LnrLoop(h, <<>>, root, <<>>, TraversalFuel(h))

RECURSIVE RnlLoop(_, _, _, _, _)
RnlLoop(h, nodes, node, acc, fuel) ==
  IF nodes = <<>> /\ node = NULL THEN [vals |-> acc, out |-> "ok"]
  ELSE IF fuel = 0 THEN [vals |-> acc, out |-> "hung"]
  ELSE IF node # NULL
  THEN RnlLoop(h, Append(nodes, node), h[node].right, acc, fuel - 1)
  ELSE LET top == nodes[Len(nodes)] IN
       RnlLoop(h, SubSeq(nodes, 1, Len(nodes) - 1), h[top].left,
               Append(acc, h[top].value), fuel - 1)

\* rnlValues()
RnlValues(h, root) == RnlLoop(h, <<>>, root, <<>>, TraversalFuel(h))

RECURSIVE NlrLoop(_, _, _, _)
NlrLoop(h, nodes, acc, fuel) ==
  IF nodes = <<>> THEN [vals |-> acc, out |-> "ok"]
  ELSE IF fuel = 0 THEN [vals |-> acc, out |-> "hung"]
  ELSE NlrLoop(h,
         Push(Push(SubSeq(nodes, 1, Len(nodes) - 1),
                   h[nodes[Len(nodes)]].right),
              h[nodes[Len(nodes)]].left),
         Append(acc, h[nodes[Len(nodes)]].value), fuel - 1)

\* nlrValues()
NlrValues(h, root) ==
  NlrLoop(h, IF root # NULL THEN <<root>> ELSE <<>>, <<>>, TraversalFuel(h))

RECURSIVE LrnLoop(_, _, _, _, _, _)
LrnLoop(h, nodes, node, lastNodeVisited, acc, fuel) ==
  IF nodes = <<>> /\ node = NULL THEN [vals |-> acc, out |-> "ok"]
  ELSE IF fuel = 0 THEN [vals |-> acc, out |-> "hung"]
  ELSE IF node # NULL
  THEN LrnLoop(h, Append(nodes, node), h[node].left, lastNodeVisited, acc,
               fuel - 1)
  ELSE LET lastNode == nodes[Len(nodes)] IN
       IF h[lastNode].right # NULL /\ h[lastNode].right # lastNodeVisited
       THEN LrnLoop(h, nodes, h[lastNode].right, lastNodeVisited, acc, fuel - 1)
       ELSE LrnLoop(h, SubSeq(nodes, 1, Len(nodes) - 1), NULL, lastNode,
                    Append(acc, h[lastNode].value), fuel - 1)

\* lrnValues()
LrnValues(h, root) == LrnLoop(h, <<>>, root, NULL, <<>>, TraversalFuel(h))

RECURSIVE LvlLoop(_, _, _, _, _)

\* lvlValues: cursor = children.shift() ?? null
LvlShift(h, children, acc, fuel) ==
  IF children = <<>> THEN LvlLoop(h, children, NULL, acc, fuel)
  ELSE LvlLoop(h, Tail(children), Head(children), acc, fuel)

LvlLoop(h, children, cursor, acc, fuel) ==
  IF cursor = NULL THEN [vals |-> acc, out |-> "ok"]
  ELSE IF fuel = 0 THEN [vals |-> acc, out |-> "hung"]
  ELSE LvlShift(h, Push(Push(children, h[cursor].left), h[cursor].right),
                Append(acc, h[cursor].value), fuel - 1)

\* lvlValues()
LvlValues(h, root) == LvlLoop(h, <<>>, root, <<>>, TraversalFuel(h))

\* [Symbol.iterator](): yield* this.lnrValues()
Iterator(h, root) == LnrValues(h, root)

\* ------------------------------------------------- object identity, reach
\* Object references carry no order: after each operation the heap keeps
\* the objects some tree can still reach through any of its links, listed
\* in the order a walk from the trees' roots meets them.
InSeq(x, s) == \E i \in 1..Len(s) : s[i] = x

RECURSIVE Visit(_, _, _)
Visit(h, stack, seen) ==
  IF stack = <<>> THEN seen
  ELSE LET n == Head(stack) IN
       IF n = NULL \/ InSeq(n, seen) THEN Visit(h, Tail(stack), seen)
       ELSE Visit(h, <<h[n].left, h[n].right, h[n].null, h[n].parent>>
                     \o Tail(stack), Append(seen, n))

IndexOf(x, s) == IF x = NULL THEN NULL ELSE CHOOSE i \in 1..Len(s) : s[i] = x

\* a node, its links naming the positions of `order`
Renamed(n, order) ==
  [value |-> n.value, red |-> n.red,
   parent |-> IndexOf(n.parent, order), left |-> IndexOf(n.left, order),
   right |-> IndexOf(n.right, order), null |-> IndexOf(n.null, order)]

\* the heap and the roots with the nodes listed as `order` lists them
Listed(h, roots, order) ==
  [h |-> [i \in 1..Len(order) |-> Renamed(h[order[i]], order)],
   roots |-> [i \in 1..Len(roots) |-> IndexOf(roots[i], order)]]

Collect(h, roots) == Listed(h, roots, Visit(h, roots, <<>>))

\* the nodes a tree's operations can meet going down from its root
RECURSIVE Down(_, _, _)
Down(h, stack, seen) ==
  IF stack = <<>> THEN seen
  ELSE LET n == Head(stack) IN
       IF n = NULL \/ n \in seen THEN Down(h, Tail(stack), seen)
       ELSE Down(h, <<h[n].left, h[n].right>> \o Tail(stack), seen \cup {n})

Reachable(h, root) == Down(h, <<root>>, {})

\* ------------------------------------------------------------------ from
\* the loop of from() over `nodes`: it copies the children of every node it
\* pops and sets the copies' parent, and never stores a copy in node.left or
\* node.right
RECURSIVE CopyLoop(_, _, _, _)

\* if (child) child.parent = node
CopyAdopt(h, child, node) ==
  IF child = NULL THEN h ELSE SetLink(h, child, "parent", node)

\* from: left.parent = node; nodes.push(left); right.parent = node;
\*   nodes.push(right)
CopyPush(kind, h, nodes, node, left, right, fuel) ==
  CopyLoop(kind, CopyAdopt(CopyAdopt(h, left, node), right, node),
           Push(Push(nodes, left), right), fuel - 1)

\* from: right = node.right ? Node.from(node.right) : null
CopyRight(kind, h, nodes, node, left, fuel) ==
  IF h[node].right # NULL
  THEN CopyPush(kind, Append(h, NodeFrom(kind, h[h[node].right])), nodes, node,
                left, Len(h) + 1, fuel)
  ELSE CopyPush(kind, h, nodes, node, left, NULL, fuel)

\* from: left = node.left ? Node.from(node.left) : null
CopyLeft(kind, h, nodes, node, fuel) ==
  IF h[node].left # NULL
  THEN CopyRight(kind, Append(h, NodeFrom(kind, h[h[node].left])), nodes, node,
                 Len(h) + 1, fuel)
  ELSE CopyRight(kind, h, nodes, node, NULL, fuel)

CopyLoop(kind, h, nodes, fuel) ==
  IF nodes = <<>> THEN [h |-> h, out |-> "ok"]
  ELSE IF fuel = 0 THEN [h |-> h, out |-> "hung"]
  ELSE CopyLeft(kind, h, SubSeq(nodes, 1, Len(nodes) - 1), nodes[Len(nodes)],
                fuel)

\* the tree from() returns once the loop has ended: its #size is the field
\* initialiser's 0
Cloned(newRoot, loop) ==
  [h |-> loop.h, root |-> newRoot, size |-> 0, out |-> loop.out,
     rotated |-> 0]

\* from(collection) on a tree with neither compare nor map, as an operation
\* state. BinarySearchTree.from copies the root with BinarySearchNode.from;
\* RedBlackTree.from stores the source's root itself with setRoot
FromClone(kind, h, srcRoot) ==
  IF srcRoot = NULL THEN [h |-> h, root |-> NULL, size |-> 0, out |-> "ok",
     rotated |-> 0]
  ELSE IF kind = "bst"
  THEN Cloned(Len(h) + 1,
              CopyLoop(kind, Append(h, NodeFrom(kind, h[srcRoot])),
                       <<Len(h) + 1>>, TraversalFuel(h)))
  ELSE Cloned(srcRoot, CopyLoop(kind, h, <<srcRoot>>, TraversalFuel(h)))

Maps == {"none", "shift"}
\* options.map(value, index); "none" is an absent map
ApplyMap(m, value, index) ==
  IF m = "shift" THEN <<((Key(value) + index) % MaxFromKey) + 1, 1>>
  ELSE value

\* Array.from(unmappedValues, options.map, options.thisArg)
MapValues(m, vals) == [i \in 1..Len(vals) |-> ApplyMap(m, vals[i], i - 1)]

TreeInsert(kind, st, cmp, value) ==
  IF kind = "rbt" THEN RbInsert(st, cmp, value) ELSE BstInsert(st, cmp, value)

TreeRemove(kind, st, cmp, value) ==
  IF kind = "rbt" THEN RbRemove(st, cmp, value) ELSE BstRemove(st, cmp, value)

\* for (const value of values) result.insert(value)
RECURSIVE InsertAll(_, _, _, _)
InsertAll(kind, st, cmp, values) ==
  IF values = <<>> \/ st.out # "ok" THEN st
  ELSE InsertAll(kind, TreeInsert(kind, st, cmp, Head(values)).st, cmp,
                 Tail(values))

\* FromValues with options.map never applied
FromValuesUnmapped(kind, h, resultCmp, m, unmappedValues) ==
  InsertAll(kind, [h |-> h, root |-> NULL, size |-> 0, out |-> "ok",
     rotated |-> 0],
            resultCmp, unmappedValues)

\* from(collection, options) on an array or iterable, and on a tree with
\* compare or map: the unmapped values are mapped and inserted one by one
FromValues(kind, h, resultCmp, m, unmappedValues) ==
  InsertAll(kind, [h |-> h, root |-> NULL, size |-> 0, out |-> "ok",
     rotated |-> 0],
            resultCmp, MapValues(m, unmappedValues))

\* ------------------------------------------------------------ BinaryHeap
\* #data is a sequence; the array index i is position i + 1 of it.

\* array[i], undefined where the array has no element
At(array, i) == IF i >= 0 /\ i < Len(array) THEN array[i + 1] ELSE None

\* Put storing at a negative index as if it were one more element
PutAtAnyIndex(array, i, value) ==
  IF i >= 0 /\ i < Len(array) THEN [array EXCEPT ![i + 1] = value]
  ELSE Append(array, value)

\* array[i] = value. Index array.length makes the array one longer; a
\* negative index names a property and no element
Put(array, i, value) ==
  IF i < 0 THEN array
  ELSE IF i < Len(array) THEN [array EXCEPT ![i + 1] = value]
  ELSE Append(array, value)

\* swap: array[a] = array[b]; array[b] = temp, temp being the old array[a]
Swapped(array, a, b, temp) == Put(Put(array, a, At(array, b)), b, temp)

\* swap(array, a, b)
swap(array, a, b) == Swapped(array, a, b, At(array, a))

\* getParentIndex(index): Math.floor((index + 1) / 2) - 1
getParentIndex(index) == ((index + 1) \div 2) - 1

\* peek(): this.#data[0]
Peek(array) == IF array = <<>> THEN None ELSE array[1]

\* PushLoop never entered: the value stays where it was appended
PushLoopSkipped(c, array, index, parent) == array

\* push's loop `while (index !== 0 && compare(data[index], data[parent]) < 0)`
RECURSIVE PushLoop(_, _, _, _)
PushLoop(c, array, index, parent) ==
  IF index # 0 /\ Compare(c, array[index + 1], array[parent + 1]) < 0
  THEN PushLoop(c, swap(array, parent, index), parent, getParentIndex(parent))
  ELSE array

\* push, one value: index = this.#data.length; this.#data.push(value); loop
PushValue(c, array, value) ==
  PushLoop(c, Append(array, value), Len(array), getParentIndex(Len(array)))

\* push(...values): for (const value of values) ...
RECURSIVE PushAll(_, _, _)
PushAll(c, array, values) ==
  IF values = <<>> THEN array
  ELSE PushAll(c, PushValue(c, array, Head(values)), Tail(values))

\* GreatestChild with the left child chosen whatever the right one is
GreatestChildLeft(c, array, end, left, right) == left

\* pop: greatestChild =
\*   right === size || compare(data[left], data[right]) <= 0 ? left : right
GreatestChild(c, array, end, left, right) ==
  IF right = end \/ Compare(c, array[left + 1], array[right + 1]) <= 0
  THEN left ELSE right

RECURSIVE PopLoop(_, _, _, _)

\* PopSift with the swap never made: the moved element stays at the top
PopSiftNever(c, array, end, parent, greatestChild) == array

\* PopSift swapping also when the child compares equal to the parent
PopSiftOnEqual(c, array, end, parent, greatestChild) ==
  IF Compare(c, array[greatestChild + 1], array[parent + 1]) <= 0
  THEN PopLoop(c, swap(array, parent, greatestChild), end, greatestChild)
  ELSE array

\* pop, the loop body once greatestChild is chosen
PopSift(c, array, end, parent, greatestChild) ==
  IF Compare(c, array[greatestChild + 1], array[parent + 1]) < 0
  THEN PopLoop(c, swap(array, parent, greatestChild), end, greatestChild)
  ELSE array

\* pop's loop `while (left < size)`, right = 2 * (parent + 1), left = right - 1
PopLoop(c, array, end, parent) ==
  IF 2 * (parent + 1) - 1 < end
  THEN PopSift(c, array, end, parent,
               GreatestChild(c, array, end, 2 * (parent + 1) - 1,
                             2 * (parent + 1)))
  ELSE array

\* pop: return this.#data.pop()
PopLast(array) ==
  IF array = <<>> THEN [data |-> <<>>, ret |-> None]
  ELSE [data |-> SubSeq(array, 1, Len(array) - 1), ret |-> array[Len(array)]]

\* Pop with `swap(this.#data, 0, size)` left out
PopWithoutSwap(c, array) ==
  IF array = <<>> THEN [data |-> <<>>, ret |-> None]
  ELSE PopLast(PopLoop(c, array, Len(array) - 1, 0))

\* pop(): size = this.#data.length - 1; swap(this.#data, 0, size); the loop;
\* return this.#data.pop(). On an empty heap size is -1
Pop(c, array) ==
  PopLast(PopLoop(c, swap(array, 0, Len(array) - 1), Len(array) - 1, 0))

\* get length(): this.#data.length
Length(array) == Len(array)

\* isEmpty(): this.#data.length === 0
IsEmptyHeap(array) == Len(array) = 0

\* toArray(): Array.from(this.#data)
ToArray(array) == [i \in 1..Len(array) |-> At(array, i - 1)]

\* drain() run to its end, as [...heap.drain()] does: the values yielded
RECURSIVE DrainAll(_, _, _)
\* drain: `yield this.pop()`, pop having returned r
DrainOne(c, r, out) == DrainAll(c, r.data, Append(out, r.ret))

\* and the array as the loop leaves it
DrainAll(c, array, out) ==
  IF IsEmptyHeap(array) THEN [data |-> array, out |-> out]
  ELSE DrainOne(c, Pop(c, array), out)

\* ArrayFrom handing the collection's array itself to the result
ArrayShared(array) == [data |-> array, same |-> TRUE]

\* from: result.#data = Array.from(collection.#data), a new array object
ArrayFrom(array) == [data |-> ToArray(array), same |-> FALSE]

\* from(heap) without compare and map: the heap returned, c being the
\* collection's #compare; push(...values) is given no value
FromHeapCopied(c, copied) ==
  [made |-> TRUE, data |-> copied.data, compare |-> c, same |-> copied.same,
   used |-> FALSE, options |-> <<"none", "none">>]

\* from(heap, {compare: c, map: m}) with one of them given, "none" being an
\* absent option: new BinaryHeap(resultCmp); result.push(...values)
FromHeapPushed(c, m, resultCmp, array) ==
  [made |-> TRUE, data |-> PushAll(resultCmp, <<>>, MapValues(m, array)),
   compare |-> resultCmp, same |-> FALSE, used |-> FALSE,
   options |-> <<c, m>>]

\* BinaryHeap.from(collection, options) on a heap whose #compare is cmpOf and
\* whose #data is array
FromHeap(c, m, cmpOf, array) ==
  IF c = "none" /\ m = "none" THEN FromHeapCopied(cmpOf, ArrayFrom(array))
  ELSE FromHeapPushed(c, m, IF c # "none" THEN c ELSE cmpOf, array)

\* ------------------------------------------------------------------ state
VARIABLES
  heap,    \* the node objects
  root,    \* #root of tree 1 (built by the constructor) and tree 2 (by from)
  size,    \* #size of each tree
  cmp,     \* #compare of each tree
  kind,    \* the class of the trees: "bst" or "rbt"; "both" when tree 1 is a
           \* BinarySearchTree and tree 2 a RedBlackTree, each built empty
  made,    \* from() has produced tree 2
  after,   \* insert, remove and clear calls since from() first returned
  last,    \* the last call: operation, tree, return value, outcome, whether
           \* the tree held a value equal to the argument at the call, how many
           \* rotations the call made, and the options and array from() got
  plain,   \* only insert and remove have been called so far
  stored,  \* history: per key, the element whose insert last returned true
           \* with no remove of the key returning true since
  net,     \* history: inserts that returned true minus removes that did
  data,    \* #data of the BinaryHeap
  compare, \* #compare of the BinaryHeap
  call,    \* the last call on the BinaryHeap: operation and return value
  iter,    \* the iterator drain() returned: the array when it was made, the
           \* values yielded so far, whether it has run, and whether it is done
  second,  \* the heap BinaryHeap.from(heap, options) returned, if made: its
           \* #data and #compare, whether #data is the very array object of
           \* the first heap, whether a call followed from(), and the
           \* options from() was given
  given    \* history: the class and the argument of the constructor call,
           \* where the call is part of the behaviour

treeVars == <<heap, root, size, cmp, kind, made, after, last, plain, stored, net>>
heapVars == <<data, compare, call, iter, second, given>>
vars == <<treeVars, heapVars>>

\* new BinaryHeap(): no element, the default comparator descend
NoIterator == [state |-> "none", start |-> <<>>, out |-> <<>>]
NoSecond ==
  [made |-> FALSE, data |-> <<>>, compare |-> "descend", same |-> FALSE,
   used |-> FALSE, options |-> <<>>]

NewHeap ==
  /\ data = <<>>
  /\ compare = "descend"
  /\ call = [op |-> "new", ret |-> None]
  /\ iter = NoIterator
  /\ second = NoSecond
  /\ given = <<>>

Trees == {1, 2}
NoHistory == [k \in Keys |-> None]

\* new BinarySearchTree(compare) / new RedBlackTree(compare)
Init ==
  /\ heap = <<>>
  /\ root = [t \in Trees |-> NULL]
  /\ size = [t \in Trees |-> 0]
  /\ \E c \in Comparators : cmp = [t \in Trees |-> c]
  /\ kind \in Kinds
  /\ made = FALSE
  /\ after = 0
  /\ last = [op |-> "new", tree |-> 1, ret |-> FALSE, out |-> "ok",
             present |-> FALSE, rotated |-> 0, args |-> <<>>]
  /\ plain = TRUE
  /\ stored = NoHistory
  /\ net = 0
  /\ NewHeap

StateOf(tr) ==
  [h |-> heap, root |-> root[tr], size |-> size[tr], out |-> "ok",
   rotated |-> 0]

\* tree tr's #root and #size are st's; c is the heap and roots kept
Committed(tr, st, c) ==
  /\ heap' = c.h
  /\ root' = c.roots
  /\ size' = [size EXCEPT ![tr] = st.size]

\* the operation's resulting state st becomes tree tr's
Commit(tr, st) ==
  Committed(tr, st,
    Collect(st.h, [t \in Trees |-> IF t = tr THEN st.root ELSE root[t]]))

Running == last.out # "hung"

\* some value stored in tree tr compares equal to e
Present(tr, e) ==
  \E n \in Reachable(heap, root[tr]) : Compare(cmp[tr], e, heap[n].value) = 0

\* insert(e) on tree tr has returned r.ret and left r.st
Inserted(tr, e, r) ==
  /\ Commit(tr, r.st)
  /\ last' = [op |-> "insert", tree |-> tr, ret |-> r.ret, out |-> r.st.out,
              present |-> Present(tr, e), rotated |-> r.st.rotated,
              args |-> <<>>]
  /\ IF plain /\ r.ret
     THEN stored' = [stored EXCEPT ![Key(e)] = e] /\ net' = net + 1
     ELSE UNCHANGED <<stored, net>>

\* tree.insert(e), one of at most budget calls made once from() has returned
InsertCall(tr, e, budget) ==
  /\ Running
  /\ tr = 2 => made
  /\ made => after < budget
  /\ Inserted(tr, e, TreeInsert(kind, StateOf(tr), cmp[tr], e))
  /\ after' = IF made THEN after + 1 ELSE after
  /\ UNCHANGED <<cmp, kind, made, plain, heapVars>>

\* tree.insert(e)
Insert(tr, e) == InsertCall(tr, e, MaxAfter)

\* remove(e) on tree tr has returned r.ret and left r.st
Removed(tr, e, r) ==
  /\ Commit(tr, r.st)
  /\ last' = [op |-> "remove", tree |-> tr, ret |-> r.ret, out |-> r.st.out,
              present |-> Present(tr, e), rotated |-> r.st.rotated,
              args |-> <<>>]
  /\ IF plain /\ r.ret
     THEN stored' = [stored EXCEPT ![Key(e)] = None] /\ net' = net - 1
     ELSE UNCHANGED <<stored, net>>

\* tree.remove(e), one of at most budget calls made once from() has returned
RemoveCall(tr, e, budget) ==
  /\ Running
  /\ tr = 2 => made
  /\ made => after < budget
  /\ Removed(tr, e, TreeRemove(kind, StateOf(tr), cmp[tr], e))
  /\ after' = IF made THEN after + 1 ELSE after
  /\ UNCHANGED <<cmp, kind, made, plain, heapVars>>

\* tree.remove(e)
Remove(tr, e) == RemoveCall(tr, e, MaxAfter)

\* tree.clear(), one of at most budget calls made once from() has returned
ClearCall(tr, budget) ==
  /\ Running
  /\ tr = 2 => made
  /\ made => after < budget
  /\ Commit(tr, [h |-> heap, root |-> NULL, size |-> 0, out |-> "ok",
     rotated |-> 0])
  /\ last' = [op |-> "clear", tree |-> tr, ret |-> FALSE, out |-> "ok",
              present |-> FALSE, rotated |-> 0, args |-> <<>>]
  /\ plain' = FALSE /\ stored' = NoHistory /\ net' = 0
  /\ after' = IF made THEN after + 1 ELSE after
  /\ UNCHANGED <<cmp, kind, made, heapVars>>

Clear(tr) == ClearCall(tr, MaxAfter)

\* from(collection, options) has returned r as tree 2, its comparator
\* resultCmp; args are the options and the array given
Made(op, resultCmp, args, r) ==
  /\ Commit(2, r)
  /\ last' = [op |-> op, tree |-> 2, ret |-> FALSE, out |-> r.out,
              present |-> FALSE, rotated |-> r.rotated, args |-> args]
  /\ cmp' = [cmp EXCEPT ![2] = resultCmp]

\* tree 2 = from(tree 1)
From ==
  /\ Running
  \* from() is called once
  /\ ~made
  /\ Made("from", cmp[1], <<>>, FromClone(kind, heap, root[1]))
  /\ made' = TRUE
  /\ plain' = FALSE /\ stored' = NoHistory /\ net' = 0
  /\ UNCHANGED <<kind, after, heapVars>>

\* FromIterated with the first value the iterator yields never inserted
FromIteratedLosingFirst(resultCmp, m, source) ==
  IF source.out # "ok"
  THEN [h |-> heap, root |-> NULL, size |-> 0, out |-> source.out,
        rotated |-> 0]
  ELSE FromValues(kind, heap, resultCmp, m,
                  IF source.vals = <<>> THEN <<>> ELSE Tail(source.vals))

\* from(tree, options): the values are those the tree's iterator yields
FromIterated(resultCmp, m, source) ==
  IF source.out # "ok"
  THEN [h |-> heap, root |-> NULL, size |-> 0, out |-> source.out,
     rotated |-> 0]
  ELSE FromValues(kind, heap, resultCmp, m, source.vals)

\* tree 2 = from(tree 1, {compare: c, map: m}), at least one of them given;
\* c = "none" is an absent compare
FromOptions(c, m) ==
  /\ Running
  \* from() is called once
  /\ ~made
  /\ c # "none" \/ m # "none"
  /\ Made("fromOptions", IF c # "none" THEN c ELSE cmp[1], <<c, m>>,
          FromIterated(IF c # "none" THEN c ELSE cmp[1], m,
                       LnrValues(heap, root[1])))
  /\ made' = TRUE
  /\ plain' = FALSE /\ stored' = NoHistory /\ net' = 0
  /\ UNCHANGED <<kind, after, heapVars>>

Arrays == UNION {[1..n -> FromElems] : n \in 0..MaxArray}

\* tree 2 = from(values, {compare: c, map: m}) on an array
FromArray(values, c, m) ==
  /\ Running
  \* from() is called once
  /\ ~made
  \* the array is the only input: the call is made beside an empty tree 1
  /\ root[1] = NULL
  /\ Made("fromArray", IF c # "none" THEN c ELSE "ascend", <<c, m, values>>,
          FromValues(kind, heap, IF c # "none" THEN c ELSE "ascend", m, values))
  /\ made' = TRUE
  /\ plain' = FALSE /\ stored' = NoHistory /\ net' = 0
  /\ UNCHANGED <<kind, after, heapVars>>

InsertT == \E e \in Elems : Insert(1, e)
RemoveT == \E e \in Elems : Remove(1, e)
InsertSource == \E e \in FromElems : Insert(1, e)
RemoveSource == \E e \in FromElems : Remove(1, e)
InsertCopy == \E e \in FromElems : Insert(2, e)
RemoveCopy == \E e \in FromElems : Remove(2, e)
ClearT == Clear(1)
ClearCopy == Clear(2)
FromWithOptions ==
  \E c \in Comparators \cup {"none"}, m \in Maps : FromOptions(c, m)
FromAnArray ==
  \E a \in Arrays, c \in Comparators \cup {"none"}, m \in Maps : FromArray(a, c, m)

\* one tree, built empty, under insert and remove
Next == InsertT \/ RemoveT
Spec == Init /\ [][Next]_vars

\* two trees: the constructor's and the one from() returns
NextFrom ==
  \/ InsertSource \/ RemoveSource \/ ClearT
  \/ From \/ FromWithOptions \/ FromAnArray
  \/ InsertCopy \/ RemoveCopy \/ ClearCopy
SpecFrom == Init /\ [][NextFrom]_vars

\* new BinarySearchTree(compare) as tree 1, new RedBlackTree(compare) as tree 2
InitBoth ==
  /\ heap = <<>>
  /\ root = [t \in Trees |-> NULL]
  /\ size = [t \in Trees |-> 0]
  /\ \E c \in Comparators : cmp = [t \in Trees |-> c]
  /\ kind = "both"
  /\ made = FALSE
  /\ after = 0
  /\ last = [op |-> "new", tree |-> 2, ret |-> FALSE, out |-> "ok",
             present |-> FALSE, rotated |-> 0, args |-> <<>>]
  /\ plain = TRUE
  /\ stored = NoHistory
  /\ net = 0
  /\ NewHeap

\* tree 2 as the state a call on it starts from, the heap being h
StateBeside(h) ==
  [h |-> h, root |-> root[2], size |-> size[2], out |-> "ok", rotated |-> 0]

\* both calls have returned: a is the BinarySearchTree's, b the RedBlackTree's
BothReturned(op, e, a, b, c) ==
  /\ heap' = c.h
  /\ root' = c.roots
  /\ size' = [t \in Trees |-> IF t = 1 THEN a.st.size ELSE b.st.size]
  /\ last' = [op |-> op, tree |-> 2, ret |-> b.ret, out |-> b.st.out,
              present |-> Present(2, e), rotated |-> b.st.rotated,
              args |-> <<>>]
  /\ UNCHANGED <<cmp, kind, made, after, plain, stored, net, heapVars>>

BothCollected(op, e, a, b) ==
  BothReturned(op, e, a, b,
    Collect(b.st.h, [t \in Trees |-> IF t = 1 THEN a.st.root ELSE b.st.root]))

\* bst.insert(e) has returned a; rbt.insert(e) follows
BothInserted(e, a) ==
  BothCollected("insert", e, a, RbInsert(StateBeside(a.st.h), cmp[2], e))

\* bst.insert(e); rbt.insert(e)
InsertBoth(e) ==
  /\ Running
  /\ BothInserted(e, BstInsert(StateOf(1), cmp[1], e))

\* bst.remove(e) has returned a; rbt.remove(e) follows
BothRemoved(e, a) ==
  BothCollected("remove", e, a, RbRemove(StateBeside(a.st.h), cmp[2], e))

\* bst.remove(e); rbt.remove(e)
RemoveBoth(e) ==
  /\ Running
  /\ BothRemoved(e, BstRemove(StateOf(1), cmp[1], e))

InsertInBoth == \E e \in BothElems : InsertBoth(e)
RemoveFromBoth == \E e \in BothElems : RemoveBoth(e)

\* a BinarySearchTree and a RedBlackTree given the same calls
NextBoth == InsertInBoth \/ RemoveFromBoth
SpecBoth == InitBoth /\ [][NextBoth]_vars

\* a red-black tree and its copy by from(), each under insert and remove
InitShared == Init /\ kind = "rbt" /\ cmp[1] = "ascend"
InsertSharedSource == \E e \in SharedElems : InsertCall(1, e, MaxSharedAfter)
RemoveSharedSource == \E e \in SharedElems : RemoveCall(1, e, MaxSharedAfter)
InsertSharedCopy == \E e \in SharedElems : InsertCall(2, e, MaxSharedAfter)
RemoveSharedCopy == \E e \in SharedElems : RemoveCall(2, e, MaxSharedAfter)
NextShared ==
  \/ InsertSharedSource \/ RemoveSharedSource \/ From
  \/ InsertSharedCopy \/ RemoveSharedCopy
SpecShared == InitShared /\ [][NextShared]_vars

\* a tree and its copy by from(), each under insert, remove and clear
MaxClearAfter == 2
InsertBeforeClear ==
  \E tr \in Trees : \E e \in SharedElems : InsertCall(tr, e, MaxClearAfter)
RemoveBeforeClear ==
  \E tr \in Trees : \E e \in SharedElems : RemoveCall(tr, e, MaxClearAfter)
ClearEither == \E tr \in Trees : ClearCall(tr, MaxClearAfter)
NextClear == InsertBeforeClear \/ RemoveBeforeClear \/ From \/ ClearEither
SpecClear == Init /\ [][NextClear]_vars

\* no tree is built beside the heap
NoTrees ==
  /\ heap = <<>>
  /\ root = [t \in Trees |-> NULL]
  /\ size = [t \in Trees |-> 0]
  /\ cmp = [t \in Trees |-> "ascend"]
  /\ kind = "none"
  /\ made = FALSE
  /\ after = 0
  /\ last = [op |-> "new", tree |-> 1, ret |-> FALSE, out |-> "ok",
             present |-> FALSE, rotated |-> 0, args |-> <<>>]
  /\ plain = TRUE
  /\ stored = NoHistory
  /\ net = 0

\* new BinaryHeap(compare)
InitHeap ==
  /\ NoTrees
  /\ data = <<>>
  /\ compare \in Comparators
  /\ call = [op |-> "new", ret |-> None]
  /\ iter = NoIterator
  /\ second = NoSecond
  /\ given = <<>>

\* a call on one of the two heaps is made: the first after from(), if any
Called == second.made => ~second.used

\* the first heap's array now holds array: so does the second heap's #data
\* if it is the same array object
Beside(array) ==
  second' = IF second.made
            THEN [second EXCEPT !.data = IF second.same THEN array ELSE @,
                                !.used = TRUE]
            ELSE second

\* heap.push(...values); returns this.#data.length
HeapPush(values) ==
  /\ Called
  /\ Len(data) + Len(values) <= MaxLength
  /\ data' = PushAll(compare, data, values)
  /\ call' = [op |-> "push", ret |-> Len(data) + Len(values)]
  /\ Beside(PushAll(compare, data, values))
  /\ UNCHANGED <<compare, given, iter, treeVars>>

\* pop() has returned r.ret and left r.data
HeapPopped(r) ==
  /\ data' = r.data
  /\ call' = [op |-> "pop", ret |-> r.ret]
  /\ Beside(r.data)

\* heap.pop()
HeapPop ==
  /\ Called
  /\ HeapPopped(Pop(compare, data))
  /\ UNCHANGED <<compare, given, iter, treeVars>>

\* heap.peek()
HeapPeek ==
  /\ call' = [op |-> "peek", ret |-> Peek(data)]
  /\ UNCHANGED <<data, compare, given, iter, second, treeVars>>

\* heap.clear(): this.#data = [], a new array
HeapClear ==
  /\ Called
  /\ data' = <<>>
  /\ call' = [op |-> "clear", ret |-> None]
  /\ second' = IF second.made THEN [second EXCEPT !.same = FALSE, !.used = TRUE]
               ELSE second
  /\ UNCHANGED <<compare, given, iter, treeVars>>

Pushes == UNION {[1..n -> HeapElems] : n \in 0..MaxPush}
HeapPushSome == \E values \in Pushes : HeapPush(values)

\* heap.drain() or heap[Symbol.iterator](), which is `yield* this.drain()`:
\* the generator is made and has not run yet
DrainBegin(how) ==
  /\ iter.state = "none"
  /\ ~second.made
  /\ iter' = [state |-> "running", start |-> data, out |-> <<>>]
  /\ call' = [op |-> how, ret |-> None]
  /\ UNCHANGED <<data, compare, given, second, treeVars>>

\* drain, `yield this.pop()`: pop has returned r.ret and left r.data
DrainYielded(r) ==
  /\ data' = r.data
  /\ iter' = [iter EXCEPT !.out = Append(iter.out, r.ret)]
  /\ call' = [op |-> "next", ret |-> r.ret]

\* next() on the iterator: while (!this.isEmpty()) yield this.pop()
DrainNext ==
  /\ iter.state = "running"
  /\ IF IsEmptyHeap(data)
     THEN /\ iter' = [iter EXCEPT !.state = "done"]
          /\ call' = [op |-> "next", ret |-> None]
          /\ UNCHANGED data
     ELSE DrainYielded(Pop(compare, data))
  /\ UNCHANGED <<compare, given, second, treeVars>>

PushBeforeDrain == iter.state = "none" /\ HeapPushSome
PopBeforeDrain == iter.state = "none" /\ HeapPop
DrainBegun == \E how \in {"drain", "iterator"} : DrainBegin(how)

\* one BinaryHeap filled by push and pop, then iterated to the end
NextDrain == PushBeforeDrain \/ PopBeforeDrain \/ DrainBegun \/ DrainNext
SpecDrain == InitHeap /\ [][NextDrain]_vars

\* second = BinaryHeap.from(heap, {compare: c, map: m})
HeapFrom(c, m) ==
  /\ ~second.made
  /\ iter.state = "none"
  /\ Len(data) <= MaxFromLength
  /\ second' = FromHeap(c, m, compare, data)
  /\ call' = [op |-> "from", ret |-> None]
  /\ UNCHANGED <<data, compare, given, iter, treeVars>>

\* a call on the second heap has left its array holding array and returned
\* ret: the first heap's #data holds the same if it is the same array object
SecondCalled(op, array, ret) ==
  /\ second.made /\ ~second.used
  /\ second' = [second EXCEPT !.data = array, !.used = TRUE]
  /\ data' = IF second.same THEN array ELSE data
  /\ call' = [op |-> op, ret |-> ret]
  /\ UNCHANGED <<compare, given, iter, treeVars>>

\* second.push(value)
SecondPush(value) ==
  /\ Len(second.data) < MaxLength
  /\ SecondCalled("second.push",
                  PushAll(second.compare, second.data, <<value>>),
                  Len(second.data) + 1)

SecondPopped(r) == SecondCalled("second.pop", r.data, r.ret)

\* second.pop()
SecondPop == SecondPopped(Pop(second.compare, second.data))

\* [...second.drain()]
SecondDrain ==
  SecondCalled("second.drain",
               DrainAll(second.compare, second.data, <<>>).data, None)

\* second.clear(): this.#data = [], a new array
SecondClear ==
  /\ second.made /\ ~second.used
  /\ second' = [second EXCEPT !.data = <<>>, !.same = FALSE, !.used = TRUE]
  /\ call' = [op |-> "second.clear", ret |-> None]
  /\ UNCHANGED <<data, compare, given, iter, treeVars>>

\* [...heap.drain()]
HeapDrain ==
  /\ Called
  /\ data' = DrainAll(compare, data, <<>>).data
  /\ call' = [op |-> "drain", ret |-> None]
  /\ Beside(DrainAll(compare, data, <<>>).data)
  /\ UNCHANGED <<compare, given, iter, treeVars>>

PushOne == \E value \in HeapElems : HeapPush(<<value>>)
HeapFromSome ==
  \E c \in Comparators \cup {"none"}, m \in Maps : HeapFrom(c, m)
SecondPushOne == \E value \in HeapElems : SecondPush(value)

\* a BinaryHeap, the heap from() makes of it, and one call on either
NextHeapFrom ==
  \/ PushOne \/ HeapPop \/ HeapClear \/ HeapDrain \/ HeapFromSome
  \/ SecondPushOne \/ SecondPop \/ SecondClear \/ SecondDrain
SpecHeapFrom == InitHeap /\ [][NextHeapFrom]_vars

\* one BinaryHeap under push, pop, peek and clear
NextHeap == HeapPushSome \/ HeapPop \/ HeapPeek \/ HeapClear
SpecHeap == InitHeap /\ [][NextHeap]_vars

\* ----------------------------------------------------------- observers
\* isEmpty()
IsEmpty(tr) == size[tr] = 0

\* the values lnrValues() yields
Lnr(tr) == LnrValues(heap, root[tr]).vals

\* value, colour and subtrees of every position below n
RECURSIVE Shape(_, _, _)
Shape(h, n, fuel) ==
  IF n = NULL THEN <<>>
  ELSE IF fuel = 0 THEN <<"cycle">>
  ELSE <<h[n].value, h[n].red, Shape(h, h[n].left, fuel - 1),
         Shape(h, h[n].right, fuel - 1)>>

\* black nodes on every path from n down to an absent child; -1 when two
\* paths differ
RECURSIVE BlackHeight(_, _, _)
BlackHeight(h, n, fuel) ==
  IF n = NULL THEN 0
  ELSE IF fuel = 0 THEN -1
  ELSE LET l == BlackHeight(h, h[n].left, fuel - 1)
           r == BlackHeight(h, h[n].right, fuel - 1)
       IN IF l < 0 \/ r < 0 \/ l # r THEN -1
          ELSE l + (IF h[n].red THEN 0 ELSE 1)

\* what a caller can observe of a tree: the five traversals, find, size
Observed(h, r, c, sz) ==
  [lnr |-> LnrValues(h, r), rnl |-> RnlValues(h, r), nlr |-> NlrValues(h, r),
   lrn |-> LrnValues(h, r), lvl |-> LvlValues(h, r),
   find |-> [e \in Elems |-> Find(h, r, c, e)], size |-> sz]

\* ------------------------------------------------------------------ claims

\* C1: after every completed insert or remove on a RedBlackTree built from
\* empty, the root is black, no red node has a red child, and every path
\* from the root to an absent child holds the same number of black nodes.
RedBlackProperties ==
  kind = "rbt" =>
    /\ ~IsRed(heap, root[1])
    /\ \A n \in Reachable(heap, root[1]) :
         heap[n].red => ~IsRed(heap, heap[n].left) /\ ~IsRed(heap, heap[n].right)
    /\ BlackHeight(heap, root[1], Len(heap)) >= 0

\* a remove of a black node from a red-black tree of five values or more
\* has returned, leaving red nodes behind
WitnessRedBlack ==
  /\ kind = "rbt" /\ last.op = "remove" /\ last.ret
  /\ size[1] >= 4
  /\ \E n \in Reachable(heap, root[1]) : heap[n].red
  /\ BlackHeight(heap, root[1], Len(heap)) >= 2

\* the traversal ended and cmp(prev, next) < 0 for its adjacent values
Increasing(c, lnr) ==
  /\ lnr.out = "ok"
  /\ \A i \in 1..(Len(lnr.vals) - 1) :
       Compare(c, lnr.vals[i], lnr.vals[i + 1]) < 0

\* C2: after any insert/remove sequence the in-order traversal is strictly
\* increasing under the tree's comparator: cmp(prev, next) < 0 for adjacent
\* values, so that no two stored values compare equal.
InOrderStrictlyIncreasing == Increasing(cmp[1], LnrValues(heap, root[1]))

\* a remove has returned true from a descending tree that still holds
\* four values
WitnessInOrder ==
  /\ last.op = "remove" /\ last.ret /\ cmp[1] = "descend"
  /\ Len(Lnr(1)) >= 4

\* find(e) returned `found`: the element recorded for e's key, equal to e
\* under the comparator when there is one
FindsStored(e, found) ==
  /\ found = stored[Key(e)]
  /\ found # None => Compare(cmp[1], e, found) = 0

\* C3: find(v) returns the element stored by the last insert of a value
\* equivalent to v that returned true, unless a remove of an equivalent value
\* returned true since; otherwise it returns null. A value it returns
\* compares equal to v.
FindReturnsStored ==
  \A e \in Elems : FindsStored(e, Find(heap, root[1], cmp[1], e))

\* key 1 is held by its second object, so that find(<<1, 1>>) returns an
\* element other than its argument, and a key that was stored has been removed
WitnessFind ==
  /\ stored[1] = <<1, 2>>
  /\ Find(heap, root[1], cmp[1], <<1, 1>>) = <<1, 2>>
  /\ last.op = "remove" /\ last.ret
  /\ size[1] >= 3

\* C4: after any from call the size of the resulting tree is the number of
\* values reachable in it.
FromSizeCountsValues ==
  (last.op \in {"from", "fromOptions", "fromArray"} /\ last.out = "ok") =>
    size[2] = Len(Lnr(2))

\* C5: after copy = from(t) without options no node is shared, so an insert,
\* remove or clear on one of the two trees leaves what the other tree shows
\* (traversals, find results, size) unchanged.
OtherTreeUntouched ==
  [][\A tr \in Trees :
       (made /\ last'.tree = tr /\ last'.op \in {"insert", "remove", "clear"}) =>
         Observed(heap', root'[3 - tr], cmp'[3 - tr], size'[3 - tr]) =
         Observed(heap, root[3 - tr], cmp[3 - tr], size[3 - tr])]_vars

\* C6: from(t) without options returns a tree whose five traversals yield
\* t's sequences and whose nodes have the colours of t's nodes at the same
\* positions; t is unchanged by the call.
CloneIsIdentical ==
  [][(last'.op = "from" /\ last'.out = "ok") =>
       /\ LnrValues(heap', root'[2]) = LnrValues(heap, root[1])
       /\ RnlValues(heap', root'[2]) = RnlValues(heap, root[1])
       /\ NlrValues(heap', root'[2]) = NlrValues(heap, root[1])
       /\ LrnValues(heap', root'[2]) = LrnValues(heap, root[1])
       /\ LvlValues(heap', root'[2]) = LvlValues(heap, root[1])
       /\ Shape(heap', root'[2], Len(heap')) = Shape(heap, root[1], Len(heap))
       /\ Collect(heap', <<root'[1]>>) = Collect(heap, <<root[1]>>)
       /\ size'[1] = size[1] /\ cmp'[1] = cmp[1]]_vars

\* from() has returned the copy of a tree of three values, a red node
\* among them when the trees are red-black
WitnessClone ==
  /\ last.op = "from" /\ last.out = "ok"
  /\ Len(Lnr(2)) >= 3 /\ Len(Lnr(1)) >= 3
  /\ heap[root[2]].left # NULL /\ heap[root[2]].right # NULL

\* C7: size is the number of inserts that returned true minus the number of
\* removes that returned true; it is never negative and is the number of
\* nodes reachable from the root.
SizeIsInsertsMinusRemoves ==
  /\ size[1] = net
  /\ size[1] >= 0
  /\ size[1] = Cardinality(Reachable(heap, root[1]))

\* a remove has returned true and three values remain
WitnessSize ==
  last.op = "remove" /\ last.ret /\ net = 3 /\ size[1] = 3

\* C8: isEmpty() is true, size is 0 and the root is absent (no traversal
\* yields a value) all hold together or all fail together.
EmptyCoincide ==
  \A tr \in Trees :
    /\ IsEmpty(tr) <=> size[tr] = 0
    /\ size[tr] = 0 <=> root[tr] = NULL
    /\ root[tr] = NULL <=> Lnr(tr) = <<>>

\* C9: every reachable node that is the left or right child of a node has
\* that node as its parent, and the root's parent is absent.
LinkIntegrity ==
  /\ root[1] # NULL => heap[root[1]].parent = NULL
  /\ \A p \in Reachable(heap, root[1]) :
       /\ heap[p].left # NULL => heap[heap[p].left].parent = p
       /\ heap[p].right # NULL => heap[heap[p].right].parent = p

\* a call has returned from a red-black tree whose root has grandchildren:
\* rotations have moved nodes with subtrees below them
WitnessLinks ==
  /\ kind = "rbt" /\ last.op \in {"insert", "remove"} /\ last.ret
  /\ \E n \in Reachable(heap, root[1]) :
       /\ heap[n].parent # NULL /\ heap[heap[n].parent].parent = root[1]

\* C10: insert(v) returns true exactly when no stored value compares equal
\* to v; when one does, insert(v) returns false and the tree is as it was:
\* size, shape, colours, and the element find returns.
InsertOnlyWhenAbsent ==
  [][(last'.op = "insert" /\ last'.tree = 1) =>
       /\ last'.ret = ~last'.present
       /\ ~last'.ret =>
            /\ heap' = heap /\ root' = root /\ size' = size
            /\ Shape(heap', root'[1], Len(heap')) = Shape(heap, root[1], Len(heap))
            /\ \A e \in Elems :
                 Find(heap', root'[1], cmp[1], e) = Find(heap, root[1], cmp[1], e)]_vars

\* insert has returned false on a tree holding key 1 under its second object
WitnessInsertDuplicate ==
  /\ last.op = "insert" /\ ~last.ret /\ last.out = "ok"
  /\ Find(heap, root[1], cmp[1], <<1, 1>>) = <<1, 2>>
  /\ size[1] >= 2

\* C11: remove(v) returns true exactly when a stored value compares equal to
\* v; when none does (a repeated remove and a remove on an empty tree
\* included) it returns false without raising and leaves size, shape,
\* colours and stored values as they were.
RemoveOnlyWhenPresent ==
  [][(last'.op = "remove" /\ last'.tree = 1) =>
       /\ last'.out = "ok"
       /\ last'.ret = last'.present
       /\ ~last'.ret =>
            /\ heap' = heap /\ root' = root /\ size' = size
            /\ Shape(heap', root'[1], Len(heap')) = Shape(heap, root[1], Len(heap))
            /\ LnrValues(heap', root'[1]) = LnrValues(heap, root[1])]_vars

\* remove has returned false on a red-black tree that holds three values or
\* more, none of them equal to the argument
WitnessRemoveAbsent ==
  /\ last.op = "remove" /\ ~last.ret /\ ~last.present /\ last.out = "ok"
  /\ kind = "rbt" /\ size[1] >= 3

\* nodes on the longest path from n down to a leaf
RECURSIVE Height(_, _, _)
Height(h, n, fuel) ==
  IF n = NULL \/ fuel = 0 THEN 0
  ELSE 1 + (IF Height(h, h[n].left, fuel - 1) >= Height(h, h[n].right, fuel - 1)
            THEN Height(h, h[n].left, fuel - 1)
            ELSE Height(h, h[n].right, fuel - 1))

\* C12: after any sequence of insert and remove calls on a RedBlackTree the
\* height h (nodes on the longest root-to-leaf path) satisfies
\* h <= 2 * log2(size + 1), that is 2^h <= (size + 1)^2.
LogarithmicHeight ==
  kind = "rbt" =>
    Pow2(Height(heap, root[1], Len(heap))) <= (size[1] + 1) * (size[1] + 1)

\* a red-black tree of six values stands four nodes high after a call; a
\* chain of six nodes would break the bound
WitnessHeight ==
  /\ kind = "rbt" /\ last.op \in {"insert", "remove"} /\ last.ret
  /\ size[1] >= 6
  /\ Height(heap, root[1], Len(heap)) = 4

\* C13: no sequence of insert and remove calls on a red-black tree built
\* empty makes a rotation fail: no call ends by throwing out of #rotateNode.
RotationsSucceed ==
  (kind = "rbt" /\ last.op \in {"insert", "remove"}) => last.out # "threw"

WitnessRotation ==
  /\ kind = "rbt" /\ last.op = "remove" /\ last.ret /\ last.rotated > 0
  /\ last.out = "ok" /\ size[1] >= 4

\* C14: from every red-black tree state the public operations reach, each
\* insert and remove call returns: the remove fix-up finds a sibling of
\* current on every iteration and the insert fix-up climbs or ends, so
\* neither loop repeats without end.
FixupsTerminate ==
  (kind = "rbt" /\ last.op \in {"insert", "remove"}) => last.out # "hung"

\* the two calls return the same boolean and end the same way
SameReturn(a, b) == a.ret = b.ret /\ a.st.out = b.st.out

\* C15: a RedBlackTree and a BinarySearchTree with the same comparator, given
\* the same calls, return the same results for every insert, remove, find,
\* min and max call, and after every call have the same size and the same
\* in-order traversal.
SameAsBinarySearchTree ==
  /\ size[1] = size[2]
  /\ LnrValues(heap, root[1]) = LnrValues(heap, root[2])
  /\ Min(heap, root[1]) = Min(heap, root[2])
  /\ Max(heap, root[1]) = Max(heap, root[2])
  /\ \A e \in BothElems :
       /\ Find(heap, root[1], cmp[1], e) = Find(heap, root[2], cmp[2], e)
       /\ SameReturn(BstInsert(StateOf(1), cmp[1], e),
                     RbInsert(StateOf(2), cmp[2], e))
       /\ SameReturn(BstRemove(StateOf(1), cmp[1], e),
                     RbRemove(StateOf(2), cmp[2], e))

WitnessBoth ==
  /\ kind = "both" /\ last.op = "remove" /\ last.ret /\ last.rotated > 0
  /\ size[2] >= 3
  /\ Height(heap, root[1], Len(heap)) > Height(heap, root[2], Len(heap))

\* [...values].reverse()
Reverse(s) == [i \in 1..Len(s) |-> s[Len(s) + 1 - i]]

\* a tree of class k built empty with comparator c beside the nodes of h,
\* after insert(value) for each of the values in turn
OneByOne(k, h, c, values) ==
  InsertAll(k, [h |-> h, root |-> NULL, size |-> 0, out |-> "ok",
                rotated |-> 0], c, values)

\* tree 2 in the next state is the tree r, and tree 1 is as it was
ResultIs(r) ==
  /\ r.out = "ok" /\ last'.out = "ok"
  /\ Shape(heap', root'[2], Len(heap')) = Shape(r.h, r.root, Len(r.h))
  /\ size'[2] = r.size
  /\ Shape(heap', root'[1], Len(heap')) = Shape(heap, root[1], Len(heap))
  /\ Observed(heap', root'[1], cmp'[1], size'[1]) =
       Observed(heap, root[1], cmp[1], size[1])

\* C16: from(t, {compare}) inserts the values of t, in t's in-order
\* sequence, one by one into a fresh tree that uses compare, and leaves t
\* unchanged; when compare is the reverse of t's comparator the result's
\* in-order traversal is t's reversed and the result has t's size.
FromWithCompare ==
  [][(last'.op = "fromOptions" /\ last'.args[1] # "none"
        /\ last'.args[2] = "none") =>
       /\ cmp'[2] = last'.args[1]
       /\ ResultIs(OneByOne(kind, heap, last'.args[1], Lnr(1)))
       /\ last'.args[1] # cmp[1] =>
            /\ LnrValues(heap', root'[2]).vals = Reverse(Lnr(1))
            /\ size'[2] = size[1]]_vars

WitnessFromReversed ==
  /\ last.op = "fromOptions" /\ last.out = "ok"
  /\ last.args[1] # "none" /\ last.args[1] # cmp[1] /\ last.args[2] = "none"
  /\ kind = "rbt" /\ size[1] = 3 /\ size[2] = 3
  /\ Lnr(2) = Reverse(Lnr(1))

\* the values of a sequence that compare equal to no earlier one
FirstOf(c, values) ==
  {values[i] : i \in {i \in 1..Len(values) :
                        \A j \in 1..(i - 1) : Compare(c, values[j], values[i]) # 0}}

\* from(values, {compare: c, map: m}) has returned: what the result must be,
\* mapped being map(e_i, i) for each e_i, used the comparator the tree has
FromArrayAgrees(used, mapped) ==
  /\ cmp'[2] = used
  /\ ResultIs(OneByOne(kind, heap, used, mapped))
  /\ size'[2] = Cardinality(FirstOf(used, mapped))
  /\ {heap'[n].value : n \in Reachable(heap', root'[2])} = FirstOf(used, mapped)

\* C17: from(seq, {compare, map}) on an array yields the tree obtained by
\* building an empty tree with compare (ascend when omitted) and calling
\* insert(map(e_i, i)), or insert(e_i) when map is omitted, for each element
\* in order: same shape and colours, and elements comparing equal to an
\* earlier one are dropped.
FromArrayInsertsInOrder ==
  [][last'.op = "fromArray" =>
       FromArrayAgrees(
         IF last'.args[1] = "none" THEN "ascend" ELSE last'.args[1],
         [i \in 1..Len(last'.args[3]) |->
            ApplyMap(last'.args[2], last'.args[3][i], i - 1)])]_vars

WitnessFromArray ==
  /\ last.op = "fromArray" /\ last.out = "ok" /\ kind = "rbt"
  /\ last.args[1] = "descend" /\ last.args[2] = "shift"
  /\ Len(last.args[3]) = MaxArray /\ size[2] < MaxArray

\* parent(i) = floor((i - 1) / 2), for an index i > 0
ParentOf(i) == (i - 1) \div 2

\* C18: after any sequence of push, pop and clear calls on a BinaryHeap,
\* every index i > 0 of the array has cmp(data[parent(i)], data[i]) <= 0,
\* parent(i) = floor((i - 1) / 2) being the index getParentIndex returns;
\* hence data[0] is a least element under cmp.
HeapOrder ==
  /\ \A i \in 1..(Len(data) - 1) :
       /\ getParentIndex(i) = ParentOf(i)
       /\ Compare(compare, data[ParentOf(i) + 1], data[i + 1]) <= 0
  /\ \A i \in 1..Len(data) : Compare(compare, data[1], data[i]) <= 0

WitnessHeapOrder ==
  /\ call.op = "pop" /\ Len(data) = MaxLength - 1
  /\ Key(data[1]) # Key(data[2]) /\ Key(data[2]) # Key(data[3])
  /\ Key(data[1]) # Key(data[3])

\* C19 as stated: every index i > 0 has cmp(data[parent(i)], data[i]) >= 0.
HeapOrderParentLast ==
  \A i \in 1..(Len(data) - 1) :
    Compare(compare, data[ParentOf(i) + 1], data[i + 1]) >= 0

\* C19, amended: every index i > 0 has cmp(data[i], data[parent(i)]) >= 0,
\* the child being the first argument: no element compares before its parent.
HeapOrderChildFirst ==
  \A i \in 1..(Len(data) - 1) :
    Compare(compare, data[i + 1], data[ParentOf(i) + 1]) >= 0

WitnessHeapOrderChildFirst ==
  /\ call.op = "push" /\ Len(data) = MaxLength
  /\ Compare(compare, data[MaxLength], data[ParentOf(MaxLength - 1) + 1]) > 0
  /\ Compare(compare, data[2], data[1]) > 0

\* occurrences of x in the array
Count(array, x) == Cardinality({i \in 1..Len(array) : array[i] = x})

\* C20: on a non-empty BinaryHeap pop() returns the element peek() returned
\* just before; that element w has cmp(w, x) <= 0 for every element x the
\* heap held, and afterwards the heap holds the previous elements minus one
\* occurrence of w, its length one less.
PopTakesLeast ==
  [][(call'.op = "pop" /\ data # <<>>) =>
       /\ call'.ret = Peek(data)
       /\ \A i \in 1..Len(data) : Compare(compare, call'.ret, data[i]) <= 0
       /\ Len(data') = Len(data) - 1
       /\ \A x \in HeapElems :
            Count(data', x) = Count(data, x) - (IF x = call'.ret THEN 1 ELSE 0)]_vars

WitnessPop ==
  /\ call.op = "pop" /\ call.ret = <<1, 2>> /\ compare = "ascend"
  /\ Len(data) = MaxLength - 1 /\ Count(data, <<1, 1>>) = 1

\* C23: pop() and peek() on an empty BinaryHeap return undefined without
\* raising and the heap is still empty afterwards (length 0, isEmpty() true,
\* toArray() empty), so that a following push(v) returns 1 and makes v the top.
EmptyHeapStaysEmpty ==
  [][(call'.op \in {"pop", "peek"} /\ data = <<>>) =>
       /\ call'.ret = None
       /\ Length(data') = 0 /\ IsEmptyHeap(data') /\ ToArray(data') = <<>>
       /\ \A v \in HeapElems :
            /\ Length(PushAll(compare, data', <<v>>)) = 1
            /\ Peek(PushAll(compare, data', <<v>>)) = v]_vars

WitnessEmptyPop ==
  call.op = "pop" /\ call.ret = None /\ data = <<>> /\ compare = "descend"

\* adjacent values of the sequence are in comparator order
SortedUnder(c, values) ==
  \A i \in 1..(Len(values) - 1) : Compare(c, values[i], values[i + 1]) <= 0

\* C21: iterating a BinaryHeap holding n elements (drain or default
\* iteration) performs one pop per step: after j values have been yielded
\* the heap's length is n - j, the yielded sequence is sorted under cmp and,
\* with what the heap still holds, is a permutation of the n elements; when
\* the iteration ends the heap is empty.
DrainPopsInOrder ==
  [][iter'.state # "none" =>
       /\ Length(data') = Len(iter'.start) - Len(iter'.out)
       /\ SortedUnder(compare, iter'.out)
       /\ \A x \in HeapElems :
            Count(iter'.out, x) + Count(data', x) = Count(iter'.start, x)
       /\ iter'.state = "done" =>
            IsEmptyHeap(data') /\ Len(iter'.out) = Len(iter'.start)
       /\ (call'.op = "next" /\ iter'.state = "running") =>
            /\ Length(data') = Length(data) - 1
            /\ iter'.out = Append(iter.out, Peek(data))]_vars

WitnessDrained ==
  /\ iter.state = "done" /\ Len(iter.out) = MaxLength
  /\ Key(iter.out[1]) # Key(iter.out[3]) /\ Key(iter.out[3]) # Key(iter.out[5])
  /\ iter.start # iter.out

\* C22: BinaryHeap.from(h, options) never changes the source heap h. With no
\* compare and no map the new heap's array equals h's element by element and
\* is a separate array, so a later push, pop, drain or clear on either heap
\* leaves the other's length and contents unchanged; with compare or map
\* given, h still holds all its elements in the same order after the call.
FromLeavesSourceHeap ==
  [][/\ call'.op = "from" =>
          /\ data' = data /\ compare' = compare
          /\ second'.options = <<"none", "none">> =>
               /\ second'.data = data /\ ~second'.same
               /\ second'.compare = compare
     /\ (second.made /\ call'.op \in {"second.push", "second.pop",
                                      "second.drain", "second.clear"}) =>
          data' = data
     /\ (second.made /\ call'.op \in {"push", "pop", "drain", "clear"}) =>
          second'.data = second.data]_vars

WitnessHeapCopy ==
  /\ second.made /\ second.used /\ second.options = <<"none", "none">>
  /\ call.op = "second.pop"
  /\ Len(data) = MaxFromLength /\ Len(second.data) = MaxFromLength - 1

\* min() is the first and max() the last of the values, which none of them
\* precedes, respectively follows, under the comparator c
EndsOf(c, values, least, greatest) ==
  IF values = <<>> THEN least = None /\ greatest = None
  ELSE /\ least = values[1]
       /\ greatest = values[Len(values)]
       /\ \A i \in 1..Len(values) :
            /\ Compare(c, least, values[i]) <= 0
            /\ Compare(c, greatest, values[i]) >= 0

\* C24: in any tree state min() returns the first value of the in-order
\* traversal, the least under cmp, and max() the last, the greatest; on an
\* empty tree both return null without raising.
MinMaxAreEnds ==
  \A tr \in Trees :
    EndsOf(cmp[tr], Lnr(tr), Min(heap, root[tr]), Max(heap, root[tr]))

\* the values below n, node before left subtree before right subtree
RECURSIVE Preorder(_, _, _)
Preorder(h, n, fuel) ==
  IF n = NULL \/ fuel = 0 THEN <<>>
  ELSE <<h[n].value>> \o Preorder(h, h[n].left, fuel - 1)
                      \o Preorder(h, h[n].right, fuel - 1)

\* the values below n, left subtree before right subtree before node
RECURSIVE Postorder(_, _, _)
Postorder(h, n, fuel) ==
  IF n = NULL \/ fuel = 0 THEN <<>>
  ELSE Postorder(h, h[n].left, fuel - 1)
       \o Postorder(h, h[n].right, fuel - 1) \o <<h[n].value>>

\* the present children of the nodes of a level, left before right
RECURSIVE ChildrenOf(_, _)
ChildrenOf(h, level) ==
  IF level = <<>> THEN <<>>
  ELSE SelectSeq(<<h[Head(level)].left, h[Head(level)].right>>,
                 LAMBDA n : n # NULL) \o ChildrenOf(h, Tail(level))

\* the values level by level from the nodes of a level downwards
RECURSIVE BreadthFirst(_, _, _)
BreadthFirst(h, level, fuel) ==
  IF level = <<>> \/ fuel = 0 THEN <<>>
  ELSE [i \in 1..Len(level) |-> h[level[i]].value]
       \o BreadthFirst(h, ChildrenOf(h, level), fuel - 1)

\* the sequence holds every value of the set exactly once
EachOnce(values, set) ==
  /\ Len(values) = Cardinality(set)
  /\ {values[i] : i \in 1..Len(values)} = set

\* the traversals of a tree of root r and comparator c whose in-order
\* traversal is lnr
TraversalsOf(h, r, c, lnr) ==
  /\ Increasing(c, lnr)
  /\ RnlValues(h, r) = [vals |-> Reverse(lnr.vals), out |-> "ok"]
  /\ NlrValues(h, r) = [vals |-> Preorder(h, r, Len(h)), out |-> "ok"]
  /\ LrnValues(h, r) = [vals |-> Postorder(h, r, Len(h)), out |-> "ok"]
  /\ LvlValues(h, r) =
       [vals |-> BreadthFirst(h, IF r = NULL THEN <<>> ELSE <<r>>, Len(h)),
        out |-> "ok"]
  /\ Iterator(h, r) = lnr
  /\ \A t \in {RnlValues(h, r), NlrValues(h, r), LrnValues(h, r),
               LvlValues(h, r)} :
       EachOnce(t.vals, {lnr.vals[i] : i \in 1..Len(lnr.vals)})

\* C25: in any tree state lnr yields the stored values in increasing
\* comparator order, rnl the reverse of lnr, nlr, lrn and lvl the preorder,
\* postorder and breadth-first (left before right) sequences of the current
\* shape, each of the five holds every stored value exactly once, and default
\* iteration yields what lnr yields.
TraversalOrders ==
  /\ \A tr \in Trees :
       TraversalsOf(heap, root[tr], cmp[tr], LnrValues(heap, root[tr]))
  /\ plain => EachOnce(Lnr(1), {stored[k] : k \in Keys} \ {None})

\* ------------------------------------------------------ read operations
\* the methods of a tree, and of a heap, that only read
TreeReads ==
  {"find", "min", "max", "size", "isEmpty", "lnr", "rnl", "nlr", "lrn",
   "lvl", "iterator"}
HeapReads == {"peek", "length", "isEmpty", "toArray"}

\* Read losing the tree's left subtree
ReadDetaching(st, ret, out) ==
  [st |-> [st EXCEPT !.h = [n \in DOMAIN st.h |->
                              IF n = st.root THEN [st.h[n] EXCEPT !.left = NULL]
                              ELSE st.h[n]],
                     !.out = out],
   ret |-> ret]

\* a method that assigns no field of the tree or of a node has returned ret,
\* or has not returned (out = "hung"): the tree is left as st
Read(st, ret, out) == [st |-> [st EXCEPT !.out = out], ret |-> ret]

\* find(value): a search that never ends returns nothing
FindRead(st, node) ==
  Read(st, FoundValue(st.h, node), IF node = HUNG THEN "hung" ELSE "ok")

\* [...tree.lnrValues()] and the other iterators, run to their end
Traversed(st, t) == Read(st, t.vals, t.out)

\* the read method op of a tree of comparator c, value its argument
TreeRead(op, st, c, value) ==
  CASE op = "find" -> FindRead(st, FindNode(st.h, st.root, c, value))
    [] op = "min" -> Read(st, Min(st.h, st.root), "ok")
    [] op = "max" -> Read(st, Max(st.h, st.root), "ok")
    [] op = "size" -> Read(st, st.size, "ok")
    [] op = "isEmpty" -> Read(st, st.size = 0, "ok")
    [] op = "lnr" -> Traversed(st, LnrValues(st.h, st.root))
    [] op = "rnl" -> Traversed(st, RnlValues(st.h, st.root))
    [] op = "nlr" -> Traversed(st, NlrValues(st.h, st.root))
    [] op = "lrn" -> Traversed(st, LrnValues(st.h, st.root))
    [] op = "lvl" -> Traversed(st, LvlValues(st.h, st.root))
    [] op = "iterator" -> Traversed(st, Iterator(st.h, st.root))

\* the read method op of a heap whose #data is array
HeapRead(op, array) ==
  [data |-> array,
   ret |-> CASE op = "peek" -> Peek(array)
             [] op = "length" -> Length(array)
             [] op = "isEmpty" -> IsEmptyHeap(array)
             [] op = "toArray" -> ToArray(array)]

\* the read method op of tree 1 has returned r.ret and left r.st
TreeReadReturned(op, r) ==
  /\ Commit(1, r.st)
  /\ last' = [op |-> op, tree |-> 1, ret |-> r.ret, out |-> r.st.out,
              present |-> FALSE, rotated |-> 0, args |-> <<>>]

\* tree.find(value), tree.min(), ..., [...tree]
TreeReadCall(op, value) ==
  /\ Running /\ kind \in Kinds
  /\ TreeReadReturned(op, TreeRead(op, StateOf(1), cmp[1], value))
  /\ UNCHANGED <<cmp, kind, made, after, plain, stored, net, heapVars>>

\* the read method op of the heap has returned r.ret and left r.data
HeapReadReturned(op, r) ==
  /\ data' = r.data
  /\ call' = [op |-> op, ret |-> r.ret]

\* heap.peek(), heap.length, heap.isEmpty(), heap.toArray()
HeapReadCall(op) ==
  /\ kind = "none"
  /\ HeapReadReturned(op, HeapRead(op, data))
  /\ UNCHANGED <<compare, given, iter, second, treeVars>>

\* the keys of the values a tree holds when it is read
MaxReadKey == 4
ReadElems == {e \in Elems : Key(e) <= MaxReadKey /\ e[2] = 1}

\* one tree, or one heap, built empty
InitRead == Init \/ InitHeap

InsertBeforeRead == kind \in Kinds /\ \E e \in ReadElems : Insert(1, e)
RemoveBeforeRead == kind \in Kinds /\ \E e \in ReadElems : Remove(1, e)
ReadTree ==
  \/ \E e \in ReadElems : TreeReadCall("find", e)
  \/ \E op \in TreeReads \ {"find"} : TreeReadCall(op, None)
PushBeforeRead ==
  /\ kind = "none" /\ Len(data) < MaxFromLength
  /\ \E v \in SharedElems : HeapPush(<<v>>)
PopBeforeRead == kind = "none" /\ HeapPop
ReadHeap == \E op \in HeapReads : HeapReadCall(op)

NextRead ==
  \/ InsertBeforeRead \/ RemoveBeforeRead \/ ReadTree
  \/ PushBeforeRead \/ PopBeforeRead \/ ReadHeap
SpecRead == InitRead /\ [][NextRead]_vars

\* C26: find, min, max, size, isEmpty and every traversal of a tree run to
\* completion, and peek, length, isEmpty and toArray of a heap, leave the
\* container's structure unchanged: the same root, links, values, colours
\* and size, respectively the same array contents, before and after.
ReadsLeaveStructure ==
  [][/\ (last'.op \in TreeReads /\ last'.out = "ok") =>
          heap' = heap /\ root' = root /\ size' = size
     /\ call'.op \in HeapReads => data' = data /\ second' = second]_vars

\* a red-black tree whose root has two children has been traversed in
\* postorder
WitnessRead ==
  /\ kind = "rbt" /\ last.op = "lrn" /\ Len(last.ret) >= 4 /\ last.out = "ok"
  /\ heap[root[1]].left # NULL /\ heap[root[1]].right # NULL

\* every order of the values of a sequence
Orders(values) ==
  {[i \in 1..Len(values) |-> values[p[i]]] :
     p \in Permutations(1..Len(values))}

\* the tree of class k and comparator c, cleared beside the nodes of h,
\* yields lnr in order after insert of the values in turn
Refilled(k, h, c, values, lnr) ==
  LnrValues(OneByOne(k, h, c, values).h, OneByOne(k, h, c, values).root) =
    [vals |-> lnr, out |-> "ok"]

\* the tree holds nothing: size is 0, so that isEmpty() is true, and find(),
\* min() and max() return null
Emptied(h, r, c, sz) ==
  /\ sz = 0
  /\ r = NULL
  /\ \A e \in Elems : Find(h, r, c, e) = None
  /\ Min(h, r) = None /\ Max(h, r) = None

\* C27: after clear() on a tree in any state size is 0, isEmpty() is true and
\* find, min and max return absent; inserting afterwards the values stored
\* before the clear, in any order, yields the in-order traversal the tree had
\* before the clear.
ClearThenRefill ==
  [][last'.op = "clear" =>
       /\ Emptied(heap', root'[last'.tree], cmp[last'.tree], size'[last'.tree])
       /\ \A values \in Orders(Lnr(last'.tree)) :
            Refilled(kind, heap', cmp[last'.tree], values, Lnr(last'.tree))]_vars

\* ---------------------------------------------------------- constructors
Classes == {"bst", "rbt", "heap"}
\* what a caller passes as compare: a comparator, nothing, or a value that
\* is no function (null, {}, 1, "ascend")
NonCallables == {"null", "object", "number", "string"}
Arguments == Comparators \cup {"undefined"} \cup NonCallables

\* typeof compare
TypeOf(value) ==
  IF value \in Comparators THEN "function"
  ELSE IF value = "null" THEN "object"
  ELSE value

\* a parameter `compare = default`: the default stands in for undefined only
Parameter(argument, default) ==
  IF argument = "undefined" THEN default ELSE argument

\* every class with the default of the trees
DefaultOfTrees(class) == "ascend"

\* the default comparator of a class: ascend for the trees, descend for the
\* heap
DefaultOf(class) == IF class = "heap" THEN "descend" ELSE "ascend"

\* Checked without the typeof test
CheckedNever(value) == [out |-> "ok", compare |-> value]

\* if (typeof compare !== 'function') throw new TypeError(...);
\* this.#compare = compare
Checked(value) ==
  IF TypeOf(value) # "function"
  THEN [out |-> "TypeError", compare |-> "none"]
  ELSE [out |-> "ok", compare |-> value]

\* RedBlackTree's constructor: its own test, then super(compare)
CheckedTwice(first) ==
  IF first.out # "ok" THEN first
  ELSE Checked(Parameter(first.compare, DefaultOf("bst")))

\* new BinarySearchTree(argument), new RedBlackTree(argument),
\* new BinaryHeap(argument)
New(class, argument) ==
  IF class = "rbt"
  THEN CheckedTwice(Checked(Parameter(argument, DefaultOf(class))))
  ELSE Checked(Parameter(argument, DefaultOf(class)))

\* no constructor has been called
InitNew ==
  /\ heap = <<>>
  /\ root = [t \in Trees |-> NULL]
  /\ size = [t \in Trees |-> 0]
  /\ cmp = [t \in Trees |-> "none"]
  /\ kind = "none"
  /\ made = FALSE
  /\ after = 0
  /\ last = [op |-> "none", tree |-> 1, ret |-> FALSE, out |-> "ok",
             present |-> FALSE, rotated |-> 0, args |-> <<>>]
  /\ plain = TRUE
  /\ stored = NoHistory
  /\ net = 0
  /\ data = <<>>
  /\ compare = "none"
  /\ call = [op |-> "none", ret |-> None]
  /\ iter = NoIterator
  /\ second = NoSecond
  /\ given = <<>>

\* the constructor of the class has returned a container of comparator
\* r.compare, or has thrown r.out and left none
Constructed(class, r) ==
  /\ kind' = IF class # "heap" /\ r.out = "ok" THEN class ELSE "none"
  /\ cmp' = [t \in Trees |->
               IF class # "heap" /\ r.out = "ok" THEN r.compare ELSE "none"]
  /\ compare' = IF class = "heap" /\ r.out = "ok" THEN r.compare ELSE "none"
  /\ last' = [last EXCEPT !.op = "new", !.out = r.out]
  /\ call' = [op |-> IF class = "heap" /\ r.out = "ok" THEN "new" ELSE "none",
              ret |-> None]

\* new Class(argument), the one constructor call of a behaviour
Construct(class, argument) ==
  /\ given = <<>>
  /\ given' = <<class, argument>>
  /\ Constructed(class, New(class, argument))
  /\ UNCHANGED <<heap, root, size, made, after, plain, stored, net, data,
                 iter, second>>

ConstructSome == \E class \in Classes : \E a \in Arguments : Construct(class, a)
InsertNew == kind \in Kinds /\ \E e \in ReadElems : Insert(1, e)
RemoveNew == kind \in Kinds /\ \E e \in ReadElems : Remove(1, e)
PushNew ==
  /\ compare \in Comparators /\ Len(data) < MaxFromLength
  /\ \E v \in HeapElems : HeapPush(<<v>>)
PopNew == compare \in Comparators /\ HeapPop

NextNew == ConstructSome \/ InsertNew \/ RemoveNew \/ PushNew \/ PopNew
SpecNew == InitNew /\ [][NextNew]_vars

\* C28: constructing a BinarySearchTree, a RedBlackTree or a BinaryHeap with
\* a comparator argument that is not callable raises a TypeError and
\* produces no container.
NonCallableComparatorThrows ==
  (given # <<>> /\ given[2] \in NonCallables) =>
    /\ last.out = "TypeError"
    /\ kind = "none" /\ compare = "none" /\ \A t \in Trees : cmp[t] = "none"
    /\ heap = <<>> /\ data = <<>>

\* new RedBlackTree({}) has thrown
WitnessNonCallable ==
  given = <<"rbt", "object">> /\ last.op = "new" /\ last.out = "TypeError"

\* the keys of the values, each greater than the one before
AscendingKeys(values) ==
  \A i \in 1..(Len(values) - 1) : Key(values[i]) < Key(values[i + 1])

\* what pop() after pop() returns from the array is never less, by key, than
\* what follows: the greatest first
GreatestFirst(drained) ==
  /\ drained.data = <<>>
  /\ \A i \in 1..(Len(drained.out) - 1) :
       Key(drained.out[i]) >= Key(drained.out[i + 1])

\* C29: a BinarySearchTree or RedBlackTree constructed without a comparator
\* argument orders its values ascending, and a BinaryHeap constructed
\* without one is a max-heap (the default comparator is descend).
DefaultOrdering ==
  (given # <<>> /\ given[2] = "undefined") =>
    IF given[1] = "heap"
    THEN /\ compare = "descend"
         /\ \A i \in 1..Len(data) : Key(Peek(data)) >= Key(data[i])
         /\ GreatestFirst(DrainAll(compare, data, <<>>))
    ELSE /\ cmp[1] = "ascend"
         /\ AscendingKeys(Lnr(1))

\* new BinaryHeap() holds three values of different keys, pushed least first
WitnessDefault ==
  /\ given = <<"heap", "undefined">> /\ Len(data) = 3
  /\ call.op = "push" /\ Key(data[1]) > Key(data[2]) /\ Key(data[3]) > Key(data[2])

\* --------------------------------------------------- comparators applied
\* the values compared: the integers from -MaxValue to MaxValue
MaxValue == 4
Values == (0 - MaxValue)..MaxValue

\* ascend(a, b) has been called
Ascend(a, b) ==
  /\ last' = [last EXCEPT !.op = "ascend", !.ret = ascend(a, b),
                          !.args = <<a, b>>]
  /\ UNCHANGED <<heap, root, size, cmp, kind, made, after, plain, stored, net,
                 heapVars>>

\* descend(a, b) has been called
Descend(a, b) ==
  /\ last' = [last EXCEPT !.op = "descend", !.ret = descend(a, b),
                          !.args = <<a, b>>]
  /\ UNCHANGED <<heap, root, size, cmp, kind, made, after, plain, stored, net,
                 heapVars>>

AscendSome == \E a \in Values : \E b \in Values : Ascend(a, b)
DescendSome == \E a \in Values : \E b \in Values : Descend(a, b)
NextCompare == AscendSome \/ DescendSome
SpecCompare == InitNew /\ [][NextCompare]_vars

\* the call op(a, b) returned ret: -1, 1 or 0 as a is less than, greater
\* than or neither less nor greater than b for ascend, 1, -1 or 0 for descend
Returns(op, a, b, ret) ==
  /\ op = "ascend" => ret = (IF a < b THEN -1 ELSE IF a > b THEN 1 ELSE 0)
  /\ op = "descend" => ret = (IF a < b THEN 1 ELSE IF a > b THEN -1 ELSE 0)
  /\ op = "descend" => ret = ascend(b, a)
  /\ op = "ascend" => ret = descend(b, a)

\* C30: for all a and b of a totally ordered type ascend(a, b) is -1 if
\* a < b, 1 if a > b and 0 otherwise; descend(a, b) is 1 if a < b, -1 if
\* a > b and 0 otherwise; hence descend(a, b) = ascend(b, a) for every pair.
ComparatorsCompare ==
  last.op \in {"ascend", "descend"} =>
    Returns(last.op, last.args[1], last.args[2], last.ret)

\* descend(-1, 2) has returned 1
WitnessCompare ==
  last.op = "descend" /\ last.args = <<0 - 1, 2>> /\ last.ret = 1

\* ------------------------------------ two comparators of the same signs
\* the comparator of other magnitudes whose results have the signs of c's
SameSign(c) == IF c = "ascend" THEN "difference" ELSE "reversed difference"

\* two trees of one class, or two heaps, built empty: the first with ascend
\* or descend, the second with the comparator of the same signs
InitSameSign ==
  \/ /\ heap = <<>>
     /\ root = [t \in Trees |-> NULL]
     /\ size = [t \in Trees |-> 0]
     /\ \E c \in Comparators : cmp = <<c, SameSign(c)>>
     /\ kind \in Kinds
     /\ made = FALSE
     /\ after = 0
     /\ last = [op |-> "new", tree |-> 2, ret |-> FALSE, out |-> "ok",
                present |-> FALSE, rotated |-> 0, args |-> <<>>]
     /\ plain = TRUE
     /\ stored = NoHistory
     /\ net = 0
     /\ NewHeap
  \/ /\ NoTrees
     /\ data = <<>>
     /\ compare \in Comparators
     /\ call = [op |-> "new", ret |-> None]
     /\ iter = NoIterator
     /\ second = [NoSecond EXCEPT !.made = TRUE,
                                  !.compare = SameSign(compare)]
     /\ given = <<>>

\* first.insert(e); second.insert(e)
InsertSameSign(e) ==
  /\ Running /\ kind \in Kinds
  /\ BothCollected("insert", e, TreeInsert(kind, StateOf(1), cmp[1], e),
       TreeInsert(kind,
                  StateBeside(TreeInsert(kind, StateOf(1), cmp[1], e).st.h),
                  cmp[2], e))

\* first.remove(e); second.remove(e)
RemoveSameSign(e) ==
  /\ Running /\ kind \in Kinds
  /\ BothCollected("remove", e, TreeRemove(kind, StateOf(1), cmp[1], e),
       TreeRemove(kind,
                  StateBeside(TreeRemove(kind, StateOf(1), cmp[1], e).st.h),
                  cmp[2], e))

\* first.push(v); second.push(v)
PushSameSign(v) ==
  /\ kind = "none" /\ Len(data) < MaxLength
  /\ data' = PushAll(compare, data, <<v>>)
  /\ second' = [second EXCEPT
                  !.data = PushAll(second.compare, second.data, <<v>>)]
  /\ call' = [op |-> "push", ret |-> Len(data) + 1]
  /\ UNCHANGED <<compare, given, iter, treeVars>>

\* first.pop(); second.pop()
PopSameSign ==
  /\ kind = "none"
  /\ data' = Pop(compare, data).data
  /\ second' = [second EXCEPT !.data = Pop(second.compare, second.data).data]
  /\ call' = [op |-> "pop", ret |-> Pop(compare, data).ret]
  /\ UNCHANGED <<compare, given, iter, treeVars>>

InsertInSameSign == \E e \in BothElems : InsertSameSign(e)
RemoveFromSameSign == \E e \in BothElems : RemoveSameSign(e)
PushOntoSameSign == \E v \in HeapElems : PushSameSign(v)
NextSameSign ==
  \/ InsertInSameSign \/ RemoveFromSameSign
  \/ PushOntoSameSign \/ PopSameSign
SpecSameSign == InitSameSign /\ [][NextSameSign]_vars

\* the call on the first tree and the call on the second returned alike and
\* left trees of the same shape, values, colours and size
SameOutcome(a, b) ==
  /\ SameReturn(a, b)
  /\ a.st.size = b.st.size
  /\ Shape(a.st.h, a.st.root, Len(a.st.h)) = Shape(b.st.h, b.st.root, Len(b.st.h))

\* C31: two containers of the same kind driven by the same operation
\* sequence, one with comparator c1 and the other with a comparator c2 whose
\* result has the sign of c1's on every pair of values and another
\* magnitude, return the same result for every call and have the same
\* structure (shape, colours, array order) after every call.
SameSignSameBehaviour ==
  /\ kind \in Kinds =>
       /\ size[1] = size[2]
       /\ Shape(heap, root[1], Len(heap)) = Shape(heap, root[2], Len(heap))
       /\ \A e \in BothElems :
            /\ Find(heap, root[1], cmp[1], e) = Find(heap, root[2], cmp[2], e)
            /\ SameOutcome(TreeInsert(kind, StateOf(1), cmp[1], e),
                           TreeInsert(kind, StateOf(2), cmp[2], e))
            /\ SameOutcome(TreeRemove(kind, StateOf(1), cmp[1], e),
                           TreeRemove(kind, StateOf(2), cmp[2], e))
  /\ kind = "none" =>
       /\ data = second.data
       /\ Pop(compare, data) = Pop(second.compare, second.data)
       /\ \A v \in HeapElems :
            PushAll(compare, data, <<v>>) =
              PushAll(second.compare, second.data, <<v>>)

\* two red-black trees of four values or more, ordered by a comparator and
\* by its like of other magnitudes, after a remove that rotated
WitnessSameSign ==
  /\ kind = "rbt" /\ cmp = <<"descend", "reversed difference">>
  /\ last.op = "remove" /\ last.ret /\ last.rotated > 0
  /\ size[2] >= 4 /\ root[1] # root[2]

\* ------------------------------------- remove of a node of two children
\* the node x of the tree has two children
TwoChildren(h, x) ==
  x # NULL /\ x # HUNG /\ h[x].left # NULL /\ h[x].right # NULL

\* remove(e), which found x, has returned r: the node detached is y, the
\* least of x's right subtree, which has no left child; x now holds the
\* value y held, and no node reachable holds a value equal to e
SuccessorDetached(h, r, c, e, x, y, r0, nodes) ==
  /\ r.ret /\ r.st.out = "ok"
  /\ y = FindMinNode(h, h[x].right)
  /\ h[y].left = NULL
  /\ nodes = Reachable(h, r0) \ {y}
  /\ x \in nodes
  /\ r.st.h[x].value = h[y].value
  /\ \A n \in nodes : Compare(c, e, r.st.h[n].value) # 0

\* node x has in h2 the colour and the three links it has in h
SameNode(h, h2, x) ==
  /\ h2[x].red = h[x].red
  /\ h2[x].parent = h[x].parent
  /\ h2[x].left = h[x].left
  /\ h2[x].right = h[x].right

\* node x has in h2 the colour, the parent and the left child it has in h,
\* and its right child too unless that was y, which y's right child replaces
SameNodeBut(h, h2, x, y) ==
  /\ h2[x].red = h[x].red
  /\ h2[x].parent = h[x].parent
  /\ h2[x].left = h[x].left
  /\ h2[x].right = IF h[x].right = y THEN h[y].right ELSE h[x].right

\* the keys of the values
KeysOf(values) == [i \in 1..Len(values) |-> Key(values[i])]

\* a RedBlackTree of the three values of keys 1, 2, 3 whose root holds the
\* middle one (the tree from [0, -1, 1]) has, after the remove of the middle
\* one, the preorder of the greatest then the least ([1, -1])
RemovesMiddleOfThree(h, r0, c) ==
  (kind = "rbt" /\ c = "ascend" /\ KeysOf(NlrValues(h, r0).vals) = <<2, 1, 3>>) =>
    KeysOf(NlrValues(RbRemove(StateOf(1), c, <<2, 1>>).st.h,
                     RbRemove(StateOf(1), c, <<2, 1>>).st.root).vals) = <<3, 1>>

\* remove(e) of tree 1, which finds x, keeps x's colour and links
RemoveKeepsNode(e, x) ==
  TwoChildren(heap, x) =>
    /\ SuccessorDetached(heap, TreeRemove(kind, StateOf(1), cmp[1], e), cmp[1],
         e, x, FindSuccessorNode(heap, x), root[1],
         Reachable(TreeRemove(kind, StateOf(1), cmp[1], e).st.h,
                   TreeRemove(kind, StateOf(1), cmp[1], e).st.root))
    /\ SameNode(heap, TreeRemove(kind, StateOf(1), cmp[1], e).st.h, x)

\* remove(e) of tree 1, which finds x, keeps x's colour and links where no
\* fix-up follows, but for the right link that referred to the successor
RemoveKeepsNodeBut(e, x, y) ==
  TwoChildren(heap, x) =>
    /\ SuccessorDetached(heap, TreeRemove(kind, StateOf(1), cmp[1], e), cmp[1],
         e, x, y, root[1],
         Reachable(TreeRemove(kind, StateOf(1), cmp[1], e).st.h,
                   TreeRemove(kind, StateOf(1), cmp[1], e).st.root))
    /\ (kind = "bst" \/ heap[y].red) =>
         SameNodeBut(heap, TreeRemove(kind, StateOf(1), cmp[1], e).st.h, x, y)

\* C32 as stated: when remove(v) targets a node X of two children, the node
\* detached is X's in-order successor, the least of X's right subtree, which
\* has no left child; afterwards X's position holds the successor's value, X
\* keeps its colour and links, and v is no longer reachable; a RedBlackTree
\* from [0, -1, 1] has preorder [1, -1] after remove(0).
RemoveDetachesSuccessorOnly ==
  /\ \A e \in Elems : RemoveKeepsNode(e, FindNode(heap, root[1], cmp[1], e))
  /\ RemovesMiddleOfThree(heap, root[1], cmp[1])

\* C32: when remove(v) targets a node X of two children, the node detached
\* is X's in-order successor, the least of X's right subtree, which has no
\* left child; afterwards X holds the successor's value and v is no longer
\* reachable; in a BinarySearchTree, and in a RedBlackTree whose detached
\* node is red, X keeps its colour, its parent and its left child, and its
\* right child unless that was the successor, whose right child replaces it;
\* a RedBlackTree from [0, -1, 1] has preorder [1, -1] after remove(0).
RemoveDetachesSuccessor ==
  /\ \A e \in Elems :
       RemoveKeepsNodeBut(e, FindNode(heap, root[1], cmp[1], e),
         FindSuccessorNode(heap, FindNode(heap, root[1], cmp[1], e)))
  /\ RemovesMiddleOfThree(heap, root[1], cmp[1])

\* a remove has left a red-black tree whose root has two children, its
\* successor black and not its right child
WitnessSuccessor ==
  /\ kind = "rbt" /\ last.op = "remove" /\ last.ret
  /\ TwoChildren(heap, root[1])
  /\ FindSuccessorNode(heap, root[1]) # heap[root[1]].right
  /\ ~heap[FindSuccessorNode(heap, root[1])].red

\* ------------------------------------------- remove of a red node
\* the node #removeNode detaches when the node found is x
Flagged(h, x) ==
  IF h[x].left = NULL \/ h[x].right = NULL THEN x ELSE FindSuccessorNode(h, x)

\* the child that takes the place of the detached node y
Replacement(h, y) == IF h[y].left # NULL THEN h[y].left ELSE h[y].right

\* apart from the splice-out of y, which rep replaces, and the value of y
\* written into x, the nodes have in h2 the colours, links and values of h
SplicedOnly(h, h2, x, y, rep, nodes) ==
  /\ \A n \in nodes \ {y} :
       /\ h2[n].red = h[n].red
       /\ h2[n].parent = IF n = rep THEN h[y].parent ELSE h[n].parent
       /\ h2[n].left = IF h[n].left = y THEN rep ELSE h[n].left
       /\ h2[n].right = IF h[n].right = y THEN rep ELSE h[n].right
       /\ h2[n].value = IF n = x THEN h[y].value ELSE h[n].value

\* remove(e) on the red-black tree 1, which finds x and detaches the red
\* node y, has returned r
RedDetached(r, x, y) ==
  /\ r.ret /\ r.st.out = "ok"
  /\ r.st.rotated = 0
  /\ r.st.root = root[1]
  /\ Reachable(r.st.h, r.st.root) = Reachable(heap, root[1]) \ {y}
  /\ SplicedOnly(heap, r.st.h, x, y, Replacement(heap, y),
                 Reachable(heap, root[1]))
  /\ BlackHeight(heap, root[1], Len(heap)) >= 0
  /\ BlackHeight(r.st.h, r.st.root, Len(heap)) =
       BlackHeight(heap, root[1], Len(heap))

\* remove(e) finds x
RemoveOfRed(e, x) ==
  (x # NULL /\ x # HUNG /\ heap[Flagged(heap, x)].red) =>
    RedDetached(RbRemove(StateOf(1), cmp[1], e), x, Flagged(heap, x))

\* C33: in RedBlackTree.remove, when the node physically detached is red, no
\* rotation is performed and no remaining node changes colour: apart from
\* the splice-out of that node and the successor's value written into the
\* target node all links and colours are as before, and the black count of
\* every path from the root to an absent child is unchanged.
RedRemovalLeavesRest ==
  kind = "rbt" =>
    \A e \in Elems : RemoveOfRed(e, FindNode(heap, root[1], cmp[1], e))

\* a red-black tree after a remove, its root of two children with a red
\* successor that is not its right child
WitnessRedRemoval ==
  /\ kind = "rbt" /\ last.op = "remove" /\ last.ret
  /\ TwoChildren(heap, root[1])
  /\ heap[FindSuccessorNode(heap, root[1])].red
  /\ FindSuccessorNode(heap, root[1]) # heap[root[1]].right

\* ------------------------------------------ entry to the remove fix-up
\* #removeNode has detached the black node y, which had no child, from its
\* parent p and left the heap h2: one child of p is absent, the one that was
\* y, and `parent.left === current` computes the side y was on
EntryDirection(h, h2, y, p) ==
  /\ (h2[p].left = NULL) # (h2[p].right = NULL)
  /\ DirectionFromParent(h, y) \in {"left", "right"}
  /\ h2[p][DirectionFromParent(h, y)] = NULL
  /\ (IF h2[p].left = NULL THEN "left" ELSE "right") =
       DirectionFromParent(h, y)

\* remove(e) on the red-black tree tr finds x and detaches y
FixupEntered(tr, x, y) ==
  (/\ y # NULL /\ y # HUNG
   /\ ~heap[y].red
   /\ Replacement(heap, y) = NULL
   /\ heap[y].parent # NULL) =>
    EntryDirection(heap, RemoveNode(StateOf(tr), x).st.h, y, heap[y].parent)

\* remove(e) on the red-black tree tr finds x
FixupEntry(tr, x) ==
  (x # NULL /\ x # HUNG) => FixupEntered(tr, x, Flagged(heap, x))

\* C34: at every entry to the remove fix-up with current absent, exactly one
\* child slot of parent is absent and it is the slot the detached black node
\* occupied, so that the direction the test parent.left == current computes
\* is the side the node was removed from, never the sibling's side.
FixupEntersOnRemovedSide ==
  kind = "rbt" =>
    \A tr \in Trees : \A e \in Elems :
      FixupEntry(tr, FindNode(heap, root[tr], cmp[tr], e))

\* ---------------------------------------------------------------------
\* The worked example "RedBlackTree() inserts rebalance left"
\* ---------------------------------------------------------------------

\* the further inserts made once the example's eight values are in the tree
MaxExtra == 2

\* const values = [8, 4, 10, 0, 6, 11, -2, 2]
RebalanceLeftValues ==
  <<<<8, 1>>, <<4, 1>>, <<10, 1>>, <<0, 1>>, <<6, 1>>, <<11, 1>>,
    <<0 - 2, 1>>, <<2, 1>>>>

\* the values inserted after them: those of the test and their neighbours
ExtraElems == {<<k, 1>> : k \in (0 - 4)..12}

\* new RedBlackTree(ascend), nothing inserted yet
InitExample ==
  /\ heap = <<>>
  /\ root = [t \in Trees |-> NULL]
  /\ size = [t \in Trees |-> 0]
  /\ cmp = [t \in Trees |-> "ascend"]
  /\ kind = "rbt"
  /\ made = FALSE
  /\ after = 0
  /\ last = [op |-> "new", tree |-> 1, ret |-> FALSE, out |-> "ok",
             present |-> FALSE, rotated |-> 0, args |-> <<>>]
  /\ plain = FALSE
  /\ stored = NoHistory
  /\ net = 0
  /\ NewHeap

\* tree.insert(e), the values inserted so far kept in last.args
InsertExample(e, r) ==
  /\ Running
  /\ Commit(1, r.st)
  /\ last' = [op |-> "insert", tree |-> 1, ret |-> r.ret, out |-> r.st.out,
              present |-> Present(1, e), rotated |-> r.st.rotated,
              args |-> Append(last.args, e)]
  /\ UNCHANGED <<cmp, kind, made, after, plain, stored, net, heapVars>>

\* RedBlackTree.from(values): the next of the example's values is inserted
InsertNextValue ==
  /\ Len(last.args) < Len(RebalanceLeftValues)
  /\ InsertExample(RebalanceLeftValues[Len(last.args) + 1],
       TreeInsert(kind, StateOf(1), cmp[1],
                  RebalanceLeftValues[Len(last.args) + 1]))

\* tree.insert(e) on the example's tree
InsertExtra ==
  /\ Len(last.args) >= Len(RebalanceLeftValues)
  /\ Len(last.args) < Len(RebalanceLeftValues) + MaxExtra
  /\ \E e \in ExtraElems :
       InsertExample(e, TreeInsert(kind, StateOf(1), cmp[1], e))

NextExample == InsertNextValue \/ InsertExtra

SpecExample == InitExample /\ [][NextExample]_vars

\* [...tree.nlrValues()] and [...tree.lvlValues()] of tree 1
NlrOfExample == KeysOf(NlrValues(heap, root[1]).vals)
LvlOfExample == KeysOf(LvlValues(heap, root[1]).vals)

\* C35: from an empty RedBlackTree with the ascending comparator, inserting
\* 8,4,10,0,6,11,-2,2 in that order gives preorder [8,4,0,-2,2,6,10,11];
\* then inserting -3 gives preorder [4,0,-2,-3,2,8,6,10,11] and level-order
\* [4,0,8,-2,2,6,10,-3,11]: the call recolours up to the grandparent and
\* rotates the old root 8 right, so that 4 is the root and 8 its right child.
RebalanceLeftExample ==
  /\ last.args = RebalanceLeftValues =>
       /\ last.out = "ok"
       /\ NlrOfExample = <<8, 4, 0, 0 - 2, 2, 6, 10, 11>>
  /\ last.args = Append(RebalanceLeftValues, <<0 - 3, 1>>) =>
       /\ last.out = "ok" /\ last.ret
       /\ NlrOfExample = <<4, 0, 0 - 2, 0 - 3, 2, 8, 6, 10, 11>>
       /\ LvlOfExample = <<4, 0, 8, 0 - 2, 2, 6, 10, 0 - 3, 11>>
       /\ last.rotated > 0
       /\ Key(heap[root[1]].value) = 4
       /\ Key(heap[heap[root[1]].right].value) = 8
       /\ heap[heap[root[1]].left].red
       /\ heap[heap[heap[heap[root[1]].left].left].left].red

\* -3 has just been inserted into the example's tree of eight values
WitnessRebalanceLeft ==
  /\ last.args = Append(RebalanceLeftValues, <<0 - 3, 1>>)
  /\ size[1] = Len(RebalanceLeftValues) + 1

\* ---------------------------------------------------------------------
\* Rotations
\* ---------------------------------------------------------------------

Directions == {"left", "right"}

\* the root has no parent and every child's parent link names its parent
ParentsPointBack(h, r) ==
  /\ r # NULL => h[r].parent = NULL
  /\ \A n \in Reachable(h, r) : \A d \in Directions :
       h[n][d] # NULL => h[h[n][d]].parent = n

\* rotateNode(tree, node, direction) took st to r and promoted replacement
RotationKeeps(st, r, node, direction, replacement) ==
  /\ r.out = "ok"
  /\ r.rotated = st.rotated + 1
  /\ LnrValues(r.h, r.root) = LnrValues(st.h, st.root)
  /\ Reachable(r.h, r.root) = Reachable(st.h, st.root)
  /\ ParentsPointBack(r.h, r.root)
  /\ r.h[replacement][direction] = node
  /\ r.h[replacement].parent = st.h[node].parent
  /\ (r.root = replacement) = (node = st.root)
  /\ (r.root # replacement) => r.root = st.root
  /\ r.size = st.size

\* rotateNode(tree, node, direction) on a node of the tree st
Rotation(st, node, direction, replacementDirection) ==
  IF st.h[node][replacementDirection] = NULL
  THEN RotateNode(st, node, direction).out = "threw"
  ELSE RotationKeeps(st, RotateNode(st, node, direction), node, direction,
                     st.h[node][replacementDirection])

\* C36: every rotation of a node whose opposite-side child is present, in a
\* tree whose children's parent links point back, leaves the in-order value
\* sequence and the set of reachable nodes unchanged, keeps every child's
\* parent link pointing back to its parent, and makes the promoted child the
\* tree's root exactly when the rotated node was the root.
RotationPreserves ==
  \A tr \in Trees :
    ParentsPointBack(heap, root[tr]) =>
      \A node \in Reachable(heap, root[tr]) :
        /\ Rotation(StateOf(tr), node, "left", "right")
        /\ Rotation(StateOf(tr), node, "right", "left")

\* the last insert or remove rotated, and in the tree it left a right
\* rotation of the root promotes the left child and moves that child's right
\* subtree under the old root
WitnessRotationPreserved ==
  /\ kind = "rbt" /\ last.rotated > 0 /\ last.out = "ok"
  /\ root[1] # NULL
  /\ heap[root[1]].left # NULL
  /\ heap[heap[root[1]].left].right # NULL

\* ---------------------------------------------------------------------
\* Elements that compare equal in a BinaryHeap
\* ---------------------------------------------------------------------

MaxEqualKey == 2
MaxEqualLength == 4

\* three objects of every key: they compare equal and are told apart
EqualElems == {<<k, t>> : k \in 1..MaxEqualKey, t \in {1, 2, 3}}

\* heap.push(value), value one of those objects
PushEqual ==
  /\ Len(data) < MaxEqualLength
  /\ \E value \in EqualElems : HeapPush(<<value>>)

NextEqual == PushEqual \/ HeapPop \/ HeapDrain
SpecEqual == InitHeap /\ [][NextEqual]_vars

\* the indexes getParentIndex leads through from index up to 0
RECURSIVE Ancestors(_)
Ancestors(index) ==
  IF index <= 0 THEN {}
  ELSE {getParentIndex(index)} \cup Ancestors(getParentIndex(index))

\* push(value) on array has left pushed: every parent on the way up that
\* compares equal to value is where it was
PushKeepsEqual(c, array, value, pushed) ==
  \A p \in Ancestors(Len(array)) :
    Compare(c, value, At(array, p)) = 0 => At(pushed, p) = At(array, p)

\* pop's loop took array, its moved element at index 0, to sifted: whatever
\* came up to an index compares strictly less than the moved element, and is
\* the left child's element where the two children compared equal
PopKeepsEqual(c, array, end, sifted) ==
  \A i \in 0..(end - 1) :
    (At(sifted, i) # At(array, i) /\ At(sifted, i) # At(array, 0)) =>
      /\ Compare(c, At(sifted, i), At(array, 0)) < 0
      /\ (/\ 2 * i + 2 < end
          /\ Compare(c, At(array, 2 * i + 1), At(array, 2 * i + 2)) = 0) =>
           At(sifted, i) = At(array, 2 * i + 1)

\* the moved element is at index 0 still if no child compares less than it
PopStaysOnEqual(c, array, end, sifted) ==
  (\A i \in {1, 2} : i < end => Compare(c, At(array, i), At(array, 0)) >= 0)
    => sifted = array

\* e1, e2, e3 are three objects that compare equal
MutuallyEqual(c, array) ==
  /\ Len(array) = 3
  /\ Cardinality({array[1], array[2], array[3]}) = 3
  /\ Compare(c, array[1], array[2]) = 0
  /\ Compare(c, array[2], array[3]) = 0

\* C37: heap sift steps swap only on a strictly negative comparison: push
\* never moves a new element above a parent that compares equal to it; pop's
\* sift-down never swaps the moved element with a child that compares equal
\* to it and picks the left child when both children compare equal; so three
\* mutually equal elements e1, e2, e3 pushed in turn give the array
\* [e1, e2, e3], and draining it yields e1, e3, e2.
SiftsOnStrictlyLess ==
  /\ \A value \in EqualElems :
       PushKeepsEqual(compare, data, value, PushValue(compare, data, value))
  /\ PopKeepsEqual(compare, swap(data, 0, Len(data) - 1), Len(data) - 1,
       PopLoop(compare, swap(data, 0, Len(data) - 1), Len(data) - 1, 0))
  /\ PopStaysOnEqual(compare, swap(data, 0, Len(data) - 1), Len(data) - 1,
       PopLoop(compare, swap(data, 0, Len(data) - 1), Len(data) - 1, 0))
  /\ \A e1, e2, e3 \in EqualElems :
       MutuallyEqual(compare, <<e1, e2, e3>>) =>
         /\ PushAll(compare, <<>>, <<e1, e2, e3>>) = <<e1, e2, e3>>
         /\ DrainAll(compare, <<e1, e2, e3>>, <<>>).out = <<e1, e3, e2>>
  /\ MutuallyEqual(compare, data) =>
       DrainAll(compare, data, <<>>).out = <<data[1], data[3], data[2]>>

\* three mutually equal elements have been pushed one after the other
WitnessEqualPushed ==
  /\ call.op = "push"
  /\ data = <<<<1, 1>>, <<1, 2>>, <<1, 3>>>>

\* ---------------------------------------------------------------------
\* Rotations and recolouring in one insert or remove of a RedBlackTree
\* ---------------------------------------------------------------------

MaxRotationKey == 6

RotationElems == {e \in Elems : Key(e) <= MaxRotationKey /\ e[2] = 1}

InsertRotating == \E e \in RotationElems : Insert(1, e)
RemoveRotating == \E e \in RotationElems : Remove(1, e)

\* one tree of either class, built empty, under insert and remove
NextRotations == InsertRotating \/ RemoveRotating
SpecRotations == Init /\ [][NextRotations]_vars

\* the nodes of h without their colours
Links(h) ==
  [n \in 1..Len(h) |->
     [value |-> h[n].value, parent |-> h[n].parent, left |-> h[n].left,
      right |-> h[n].right]]

\* a call went from the state `spliced` the BinarySearchTree step left to the
\* state r with at most `most` rotations; what it did besides them changed
\* colours only
Rebalanced(spliced, r, most) ==
  /\ r.out = "ok"
  /\ r.rotated <= most
  /\ r.size = spliced.size
  /\ Len(r.h) = Len(spliced.h)
  /\ [n \in 1..Len(r.h) |-> r.h[n].value] =
       [n \in 1..Len(spliced.h) |-> spliced.h[n].value]
  /\ LnrValues(r.h, r.root) = LnrValues(spliced.h, spliced.root)
  /\ Reachable(r.h, r.root) = Reachable(spliced.h, spliced.root)
  /\ r.rotated = 0 =>
       (Links(r.h) = Links(spliced.h) /\ r.root = spliced.root)

\* insert(value) on the tree st, ins being what #insertNode returns
InsertRebalanced(st, ins) ==
  Rebalanced(ins.st, InsertInserted(ins).st, 2)

\* remove(value) on the tree st, node being what #findNode returns
RemoveRebalanced(st, node) ==
  IF node = NULL THEN RemoveFound(st, node).st = st
  ELSE Rebalanced(RemoveNode(st, node).st, RemoveFound(st, node).st, 3)

====
